---- MODULE Spec2Model ----
(***************************************************************************)
(* Model of the FDCAN driver (src/src/fdcan.rs, src/src/fdcan/config.rs):  *)
(*  - the transmit engine (Tx::transmit, Tx::abort and their helpers)      *)
(*    against the peripheral's transmit registers and Tx message RAM;      *)
(*  - receive (Rx::receive and its helpers) against the two Rx FIFOs;      *)
(*  - the mode state machine of FdCan<I, MODE>, the Config-mode setters    *)
(*    and the configuration snapshot against CCCR and its neighbours.      *)
(*                                                                         *)
(* Registers that are bitmaps over the three Tx buffers (TXBRP, TXBCR,     *)
(* TXBCF, TXBTO) are sets of bit numbers; `a & b != 0` in the code is a    *)
(* non-empty intersection of the two bit sets.  The driver runs one call   *)
(* at a time (it is not reentrant); the peripheral acts between any two    *)
(* register accesses of the driver.  The three parts share no register,    *)
(* so each has a specification of its own: Spec (transmit), SpecRx         *)
(* (receive), SpecMode (modes), SpecConfig (setters); SpecNb runs transmit *)
(* and receive calls side by side.                                         *)
(***************************************************************************)
EXTENDS Naturals, Sequences, FiniteSets

VARIABLES
    trp,            \* TXBRP.TRP: Tx buffers with a pending transmission request
    tcr,            \* TXBCR.CR : cancellation requests not yet executed
    tcf,            \* TXBCF.CF : cancellation finished
    tto,            \* TXBTO.TO : transmission occurred
    tfqpi,          \* TXFQS.TFQPI: put index of the Tx queue
    tbsa,           \* message RAM: identifier in the header of each Tx buffer
    order,          \* pending buffers, oldest accepted frame first (history)
    pc,             \* position of the running driver call
    op,             \* the running public operation
    frameId,        \* transmit: identifier of the frame handed in
    queue_is_full,  \* transmit: local `queue_is_full`
    idx,            \* transmit/abort: local `idx` (a Mailbox)
    pending_frame,  \* transmit: local `pending_frame`
    result,         \* value the running call returned
    written,        \* what write_mailbox did in the running call
    entryTrp,       \* history: TXBRP as first read by the running call
    crWritten,      \* history: bits the running call wrote to TXBCR
    sent,           \* history: buffers the peripheral sent while the call ran
    rxfl,           \* RXFnS.FnFL: fill level of each Rx FIFO
    rxgi,           \* RXFnS.FnGI: get index of each Rx FIFO
    rxlost,         \* RXFnS.RFnL: message-lost flag of each Rx FIFO
    fxsa,           \* message RAM: frame length in the header of each Rx element
    rpc,            \* position of the running receive call
    rnr,            \* receive: the FIFO number of the Rx half (`nr`)
    mbox,           \* receive: local `mbox`
    rresult,        \* value the running receive call returned
    handler,        \* history: calls of the closure, the slot and words it saw
    acked,          \* history: indices the running call wrote to RXFnA
    entryFl,        \* history: fill level as first read by the running call
    lostRead,       \* history: the lost flag as has_overrun read it
    mode,           \* the MODE type parameter of the live FdCan handle
    mpc,            \* position inside a running mode transition
    cccr,           \* CCCR, one field per bit the driver touches
    lbck,           \* TEST.LBCK
    config,         \* FdCanControl.config, the stored snapshot
    nbtp,           \* NBTP (nominal bit timing)
    dbtp,           \* DBTP (data bit timing)
    ckdiv,          \* CKDIV.PDIV
    ils,            \* ILS (interrupt line select), as the set of its set bits
    tscc,           \* TSCC (timestamp counter configuration)
    ie,             \* IE (interrupt enable), as the set of its set bits
    ile,            \* ILE: the enabled interrupt lines
    flssa,          \* message RAM: the standard filter elements
    flesa,          \* message RAM: the extended filter elements
    rxgfc,          \* RXGFC: the filter list sizes LSS and LSE
    lastOp,         \* history: the last trait operation called in this mode
    txWrote,        \* history: TXBAR or TXBCR written to in this mode
    bulk,           \* the running set_*_filters call: table, argument, index
    handle          \* "unified": one FdCan; "split": control, Tx, Rx<Fifo0>, Rx<Fifo1>

txvars == << trp, tcr, tcf, tto, tfqpi, tbsa, order, pc, op, frameId,
             queue_is_full, idx, pending_frame, result, written, entryTrp,
             crWritten, sent >>

rxhw    == << rxfl, rxgi, rxlost, fxsa >>
rxlocal == << rpc, rnr, mbox, rresult, handler, acked, entryFl, lostRead >>
rxvars  == << rxhw, rxlocal >>

modehw   == << cccr, lbck, nbtp, dbtp, ckdiv, ils, tscc, ie, ile, flssa,
              flesa, rxgfc >>
modevars == << mode, mpc, config, modehw, lastOp, txWrote, bulk, handle >>

nontx == << rxvars, modevars >>
nonrx == << txvars, modevars >>

vars == << txvars, rxvars, modevars >>

hw    == << trp, tcr, tcf, tto, tfqpi >>
local == << frameId, queue_is_full, idx, pending_frame, result, written >>

-----------------------------------------------------------------------------
(* Data *)

\* enum Mailbox { _0 = 0, _1 = 1, _2 = 2 }
Mailboxes == {0, 1, 2}

\* Standard identifiers used for frames: 0x050, 0x100, 0x7FF.
Ids == {80, 256, 2047}

\* TxFrameHeader.len ranges over 0..MaxFrameLen bytes.
MaxFrameLen == 64

\* Bit numbers set in the byte v.
BitsOf(v) == { b \in 0..7 : (v \div (2 ^ b)) % 2 = 1 }

\* The bits of v that fit a 3-bit register field.
Field3(v) == BitsOf(v) \cap Mailboxes

\* A mailbox as the one-hot mask of its bit in the Tx buffer registers.
Mailbox_bit(m) == 2 ^ m

\* impl From<Mailbox> for u8: `m as u8`.
Mailbox_u8(m) == m

\* Mailbox::new: idx & 0b11 mapped to a Mailbox (3 is unreachable!()).
Mailbox_new(i) == i % 4

\* IdReg's ordering: a <= b when a's bus priority is at most b's; a lower
\* numeric standard identifier is the higher priority.
IdRegLe(a, b) == a >= b

None == "None"

NoWrite == [mb |-> 3, len |-> 0, words |-> 0, ar |-> {}]

\* The two Rx FIFOs (Fifo0, Fifo1), each of three elements.
Fifos == {0, 1}

\* RxFrameInfo.len of the frames received: 3 and 20 bytes.
RxLens == {3, 20}

\* RxFifoElement.data: [u32; 16].
RxDataWords == 16

NoCall == [calls |-> 0, slot |-> 3, len |-> 0, words |-> 0]

\* The mode marker types of FdCan<I, MODE>.
Modes == {"PoweredDown", "Config", "InternalLoopback", "ExternalLoopback",
          "Normal", "Restricted", "BusMonitoring", "Test"}

\* A Transmit that RestrictedOperationMode implements as well.
TransmitModesWide == {"InternalLoopback", "ExternalLoopback", "Normal",
                      "Restricted"}

\* impl Transmit for InternalLoopbackMode, ExternalLoopbackMode,
\* NormalOperationMode.
TransmitModes == {"InternalLoopback", "ExternalLoopback", "Normal"}

\* impl Receive for the same three, RestrictedOperationMode and
\* BusMonitoringMode.
ReceiveModes == {"InternalLoopback", "ExternalLoopback", "Normal",
                 "Restricted", "BusMonitoring"}

\* The modes with an into_config_mode of their own besides PoweredDown.
OperatingModes == {"InternalLoopback", "ExternalLoopback", "Normal",
                   "Restricted", "BusMonitoring", "Test"}

\* CCCR after reset (0x0000_0001): INIT set, everything else clear.
CccrReset ==
    [init |-> TRUE, cce |-> FALSE, asm |-> FALSE, csa |-> FALSE,
     mon |-> FALSE, dar |-> FALSE, txp |-> FALSE, niso |-> FALSE,
     efbi |-> FALSE, pxhd |-> FALSE, fdoe |-> FALSE, brse |-> FALSE]

\* NominalBitTiming::default() and a timing with a prescaler wider than
\* its register field.
NbtDefault == [prescaler |-> 0, seg1 |-> 10, seg2 |-> 3, sync_jump_width |-> 3]
NbtWide    == [prescaler |-> 600, seg1 |-> 20, seg2 |-> 5, sync_jump_width |-> 4]
NominalBitTimings == {NbtDefault, NbtWide}

\* DataBitTiming::default() and a timing with a segment wider than its
\* register field.
DbtDefault == [prescaler |-> 0, seg1 |-> 10, seg2 |-> 3, sync_jump_width |-> 3]
DbtWide    == [prescaler |-> 2, seg1 |-> 40, seg2 |-> 5, sync_jump_width |-> 2]
DataBitTimings == {DbtDefault, DbtWide}

\* enum FrameTransmissionConfig
FrameTransmissionConfigs == {"ClassicCanOnly", "AllowFdCan", "AllowFdCanAndBRS"}

\* enum ClockDivider: _1 = 0b0000, _2 = 0b0001.
ClockDividers == {0, 1}

\* enum TimestampSource: None, Prescaler(_2), FromTIM3.
TimestampSources == {"None", "Prescaler2", "FromTIM3"}

\* Interrupts used: two bits of the Interrupts flags.
InterruptBits == {"RxFifo0NewMsg", "TxComplete"}

\* enum InterruptLine { _0, _1 }
InterruptLines == {0, 1}

\* The filter slots modelled of each table, and what a slot can hold.
StandardFilterSlots == {0, 1}
ExtendedFilterSlots == {0}
FilterElements == {"disable", "accept_all"}

\* The capacity of the two filter tables, and RXGFC after reset.
STANDARD_FILTER_MAX == Cardinality(StandardFilterSlots)
EXTENDED_FILTER_MAX == Cardinality(ExtendedFilterSlots)
RxgfcReset == [lss |-> 0, lse |-> 0]

\* RXGFC with the list sizes exchanged.
RxgfcSwapped == [lss |-> EXTENDED_FILTER_MAX, lse |-> STANDARD_FILTER_MAX]

\* into_config_mode: `rxgfc.modify(|_, w| w.lse().bits(EXTENDED_FILTER_MAX)
\* .lss().bits(STANDARD_FILTER_MAX))`.
RxgfcListSizes == [lss |-> STANDARD_FILTER_MAX, lse |-> EXTENDED_FILTER_MAX]

\* No set_standard_filters / set_extended_filters call is running.
NoBulk == [table |-> "none", filters |-> << >>, k |-> 0, old |-> << >>]

\* FdCanConfig::default()
ConfigDefault ==
    [nbtr |-> NbtDefault, dbtr |-> DbtDefault,
     automatic_retransmit |-> FALSE, transmit_pause |-> FALSE,
     frame_transmit |-> "ClassicCanOnly", non_iso_mode |-> FALSE,
     edge_filtering |-> FALSE, interrupt_line_config |-> {},
     protocol_exception_handling |-> TRUE, clock_divider |-> 0,
     timestamp_source |-> "None"]

-----------------------------------------------------------------------------
\* A configuration that differs from FdCanConfig::default() in every field.
ConfigAlt ==
    [nbtr |-> NbtWide, dbtr |-> DbtWide,
     automatic_retransmit |-> TRUE, transmit_pause |-> TRUE,
     frame_transmit |-> "AllowFdCanAndBRS", non_iso_mode |-> TRUE,
     edge_filtering |-> TRUE, interrupt_line_config |-> InterruptBits,
     protocol_exception_handling |-> FALSE, clock_divider |-> 1,
     timestamp_source |-> "FromTIM3"]

\* The configurations handed to apply_config: the two above and each of
\* them with one field taken from the other.
WithField(a, b, f) == [k \in DOMAIN a |-> IF k = f THEN b[k] ELSE a[k]]
AppliedConfigs ==
    {ConfigDefault, ConfigAlt}
        \cup {WithField(ConfigDefault, ConfigAlt, f) : f \in DOMAIN ConfigDefault}
        \cup {WithField(ConfigAlt, ConfigDefault, f) : f \in DOMAIN ConfigDefault}
(* History helpers *)

RECURSIVE Remove(_, _)
Remove(s, m) ==
    IF s = << >> THEN << >>
    ELSE IF Head(s) = m THEN Remove(Tail(s), m)
    ELSE << Head(s) >> \o Remove(Tail(s), m)

Pos(s, m) == CHOOSE i \in 1..Len(s) : s[i] = m

\* a was accepted before b (both pending).
Before(s, a, b) == Pos(s, a) < Pos(s, b)

-----------------------------------------------------------------------------
(* The peripheral *)

\* TXFQS.TFQF: every Tx buffer has a pending request.
TFQF(p) == p = Mailboxes

\* The put index names a free buffer while one exists: when the buffer it
\* names is taken it moves on, cyclically, to the next free one.
NextPut(p, pend) ==
    IF p \notin pend \/ pend = Mailboxes THEN p
    ELSE IF ((p + 1) % 3) \notin pend THEN (p + 1) % 3
    ELSE (p + 2) % 3

\* The pending buffer the Tx handler sends next in queue mode: the lowest
\* identifier, and among equal identifiers the lowest buffer number.
Wins(m) ==
    /\ m \in trp
    /\ \A j \in trp : tbsa[m] < tbsa[j] \/ (tbsa[m] = tbsa[j] /\ m <= j)

\* The peripheral completes the transmission of buffer m.
HwTransmit(m) ==
    /\ Wins(m)
    /\ trp' = trp \ {m}
    /\ tto' = tto \cup {m}
    /\ tcf' = IF m \in tcr THEN tcf \cup {m} ELSE tcf
    /\ tcr' = tcr \ {m}
    /\ tfqpi' = IF TFQF(trp) THEN m ELSE tfqpi
    /\ order' = Remove(order, m)
    /\ sent' = IF op = "none" \/ pc = "done" THEN sent ELSE sent \cup {m}
    /\ UNCHANGED << tbsa, pc, op, local, entryTrp, crWritten >>

\* The peripheral executes a requested cancellation of buffer m.
HwCancel(m) ==
    /\ m \in tcr
    /\ m \in trp
    /\ trp' = trp \ {m}
    /\ tcf' = tcf \cup {m}
    /\ tcr' = tcr \ {m}
    /\ tfqpi' = IF TFQF(trp) THEN m ELSE tfqpi
    /\ order' = Remove(order, m)
    /\ UNCHANGED << tto, tbsa, pc, op, local, entryTrp, crWritten, sent >>

-----------------------------------------------------------------------------
(* Tx helpers *)

\* Tx::tx_queue_is_full
tx_queue_is_full == TFQF(trp)

\* Tx::has_pending_frame: TXBRP & idx != 0, idx the Mailbox as u8.
has_pending_frame(m) == (trp \cap BitsOf(Mailbox_u8(m))) # {}

\* Tx::is_available
is_available(m, id) ==
    IF has_pending_frame(m)
    THEN IF IdRegLe(id, tbsa[m]) THEN FALSE ELSE TRUE
    ELSE TRUE

\* A word count that rounds down.
data_len_floor(len) == len \div 4

\* write_mailbox: length of the data in words.
data_len(len) == (len + 3) \div 4

\* Where transmit goes after reading the queue-full flag.
TransmitBranch(full) == IF full THEN "scan" ELSE "put"

-----------------------------------------------------------------------------
InitTx ==
    /\ trp = {}
    /\ tcr = {}
    /\ tcf = {}
    /\ tto = {}
    /\ tfqpi = 0
    /\ tbsa = [m \in Mailboxes |-> 2047]
    /\ order = << >>
    /\ pc = "idle"
    /\ op = "none"
    /\ frameId = 2047
    /\ queue_is_full = FALSE
    /\ idx = 0
    /\ pending_frame = None
    /\ result = None
    /\ written = NoWrite
    /\ entryTrp = {}
    /\ crWritten = {}
    /\ sent = {}

-----------------------------------------------------------------------------
(* Tx::transmit *)

\* The call, up to `let queue_is_full = self.tx_queue_is_full()`.
TransmitCall(id) ==
    /\ pc = "idle"
    /\ op' = "transmit"
    /\ frameId' = id
    /\ queue_is_full' = tx_queue_is_full
    /\ entryTrp' = trp
    /\ idx' = 0
    /\ pc' = TransmitBranch(tx_queue_is_full)
    /\ UNCHANGED << hw, tbsa, order, pending_frame, result, written,
                    crWritten, sent >>

\* A not-full branch that bails out instead of using the put index.
TransmitPutBails ==
    /\ pc = "put"
    /\ result' = "WouldBlock"
    /\ pc' = "done"
    /\ UNCHANGED << hw, tbsa, order, op, frameId, queue_is_full, idx,
                    pending_frame, written, entryTrp, crWritten, sent >>

\* Queue not full: read the put index.
TransmitPut ==
    /\ pc = "put"
    /\ idx' = Mailbox_new(tfqpi)
    /\ pending_frame' = None
    /\ pc' = "write"
    /\ UNCHANGED << hw, tbsa, order, op, frameId, queue_is_full, result,
                    written, entryTrp, crWritten, sent >>

\* Queue full: is_available(idx, id) for Mailbox _0, _1, _2 in turn.
TransmitScan ==
    /\ pc = "scan"
    /\ IF is_available(idx, frameId)
       THEN /\ pc' = "abort"
            /\ UNCHANGED << idx, result >>
       ELSE IF idx < 2
       THEN /\ idx' = idx + 1
            /\ UNCHANGED << pc, result >>
       ELSE /\ result' = "WouldBlock"
            /\ pc' = "done"
            /\ UNCHANGED idx
    /\ UNCHANGED << hw, tbsa, order, op, frameId, queue_is_full,
                    pending_frame, written, entryTrp, crWritten, sent >>

\* What abort's caller does with its return value.
AbortReturns(b) ==
    IF op = "transmit"
    THEN /\ pending_frame' = IF b THEN "Some" ELSE None
         /\ pc' = "write"
         /\ UNCHANGED result
    ELSE /\ result' = IF b THEN "true" ELSE "false"
         /\ pc' = "done"
         /\ UNCHANGED pending_frame

\* Tx::abort: `if self.has_pending_frame(idx)`.
AbortCheck ==
    /\ pc = "abort"
    /\ entryTrp' = IF op = "abort" THEN trp ELSE entryTrp
    /\ IF has_pending_frame(idx)
       THEN /\ pc' = "abort_req"
            /\ UNCHANGED << pending_frame, result >>
       ELSE AbortReturns(FALSE)
    /\ UNCHANGED << hw, tbsa, order, op, frameId, queue_is_full, idx,
                    written, crWritten, sent >>

\* Tx::abort: `can.txbcr.write(|w| w.cr().bits(idx))`.  A cancellation
\* requested for a buffer without a pending request is finished at once.
AbortRequest ==
    /\ pc = "abort_req"
    /\ LET cr == Field3(Mailbox_u8(idx)) IN
        /\ tcr' = tcr \cup (cr \cap trp)
        /\ tcf' = tcf \cup (cr \ trp)
        /\ crWritten' = crWritten \cup cr
    /\ pc' = "abort_wait"
    /\ UNCHANGED << trp, tto, tfqpi, tbsa, order, op, local, entryTrp, sent >>

\* Tx::abort: the loop on TXBCF, left once `cf & idx != 0`, returning
\* `to & idx == 0`.
AbortWait ==
    /\ pc = "abort_wait"
    /\ (tcf \cap BitsOf(Mailbox_u8(idx))) # {}
    /\ AbortReturns((tto \cap BitsOf(Mailbox_u8(idx))) = {})
    /\ UNCHANGED << hw, tbsa, order, op, frameId, queue_is_full, idx,
                    written, entryTrp, crWritten, sent >>

\* Tx::write_mailbox, then `Ok(pending_frame)`.  TXBAR reads back the
\* requests the Tx scan has not taken yet.
WriteMailbox ==
    /\ pc = "write"
    /\ \E len \in 0..MaxFrameLen, ar \in SUBSET trp :
        LET add == ar \cup {idx} IN
        /\ tbsa' = [tbsa EXCEPT ![idx] = frameId]
        /\ written' = [mb |-> idx, len |-> len, words |-> data_len(len),
                       ar |-> add \ trp]
        /\ trp' = trp \cup add
        /\ tcf' = tcf \ add
        /\ tto' = tto \ add
        /\ tfqpi' = NextPut(tfqpi, trp \cup add)
        /\ order' = Append(Remove(order, idx), idx)
    /\ result' = IF pending_frame = "Some" THEN "OkSome" ELSE "OkNone"
    /\ pc' = "done"
    /\ UNCHANGED << tcr, op, frameId, queue_is_full, idx, pending_frame,
                    entryTrp, crWritten, sent >>

\* FdCan::abort / Tx::abort called on its own.
AbortCall(m) ==
    /\ pc = "idle"
    /\ op' = "abort"
    /\ idx' = m
    /\ pc' = "abort"
    /\ UNCHANGED << hw, tbsa, order, frameId, queue_is_full, pending_frame,
                    result, written, entryTrp, crWritten, sent >>

\* Tx::is_idle: `can.txbrp.read().trp().bits() == 0x0`.
IsIdleCall ==
    /\ pc = "idle"
    /\ op' = "is_idle"
    /\ result' = IF trp = {} THEN "true" ELSE "false"
    /\ pc' = "done"
    /\ UNCHANGED << hw, tbsa, order, frameId, queue_is_full, idx,
                    pending_frame, written, entryTrp, crWritten, sent >>

\* The call has returned; its locals are gone.
Return ==
    /\ pc = "done"
    /\ pc' = "idle"
    /\ op' = "none"
    /\ frameId' = 2047
    /\ queue_is_full' = FALSE
    /\ idx' = 0
    /\ pending_frame' = None
    /\ result' = None
    /\ written' = NoWrite
    /\ entryTrp' = {}
    /\ crWritten' = {}
    /\ sent' = {}
    /\ UNCHANGED << hw, tbsa, order >>

-----------------------------------------------------------------------------
Transmit == \E id \in Ids : TransmitCall(id)
Abort    == \E m \in Mailboxes : AbortCall(m)
Hardware == \E m \in Mailboxes : HwTransmit(m) \/ HwCancel(m)

-----------------------------------------------------------------------------
(* Configuration: what each setter writes *)

\* NominalBitTiming::nbrp / ntseg1 / ntseg2 / nsjw, as written to NBTP.
Nbtp(btr) ==
    [nbrp |-> btr.prescaler % 512, ntseg1 |-> btr.seg1 % 256,
     ntseg2 |-> btr.seg2 % 128, nsjw |-> btr.sync_jump_width % 128]

\* DataBitTiming::dbrp / dtseg1 / dtseg2 / dsjw, as written to DBTP.
Dbtp(btr) ==
    [dbrp |-> btr.prescaler % 32, dtseg1 |-> btr.seg1 % 32,
     dtseg2 |-> btr.seg2 % 16, dsjw |-> btr.sync_jump_width % 16]

\* set_timestamp_counter_source: the (tcp, tss) written to TSCC.
Tscc(select) ==
    CASE select = "None" -> [tcp |-> 0, tss |-> 0]
      [] select = "Prescaler2" -> [tcp |-> 2, tss |-> 1]
      [] select = "FromTIM3" -> [tcp |-> 0, tss |-> 2]

\* set_automatic_retransmit: `cccr.modify(|_, w| w.dar().bit(!enabled))`.
set_automatic_retransmit(c, enabled) == [c EXCEPT !.dar = ~enabled]

\* set_transmit_pause: `cccr.modify(|_, w| w.dar().bit(!enabled))`.
set_transmit_pause(c, enabled) == [c EXCEPT !.dar = ~enabled]

\* set_non_iso_mode: `cccr.modify(|_, w| w.niso().bit(!enabled))`.
set_non_iso_mode(c, enabled) == [c EXCEPT !.niso = ~enabled]

\* set_edge_filtering: `cccr.modify(|_, w| w.efbi().bit(!enabled))`.
set_edge_filtering(c, enabled) == [c EXCEPT !.efbi = ~enabled]

\* set_frame_transmit: (fdoe, brse) by FrameTransmissionConfig.
set_frame_transmit(c, fts) ==
    [c EXCEPT !.fdoe = fts \in {"AllowFdCan", "AllowFdCanAndBRS"},
              !.brse = fts = "AllowFdCanAndBRS"]

\* set_protocol_exception_handling: `cccr.write(|w| w.pxhd().bit(enabled))`;
\* write starts from the register's reset value.
set_protocol_exception_handling(c, enabled) ==
    [CccrReset EXCEPT !.pxhd = enabled]

\* apply_config, as far as it touches CCCR: the setters in its order.
apply_config(c, cfg) ==
    set_protocol_exception_handling(
      set_edge_filtering(
        set_non_iso_mode(
          set_frame_transmit(
            set_transmit_pause(
              set_automatic_retransmit(c, cfg.automatic_retransmit),
              cfg.transmit_pause),
            cfg.frame_transmit),
          cfg.non_iso_mode),
        cfg.edge_filtering),
      cfg.protocol_exception_handling)

\* enter_init_mode: INIT set, the wait for INIT to read set, then CCE set.
enter_init_mode(c) == [c EXCEPT !.init = TRUE, !.cce = TRUE]

\* leave_init_mode, as far as it touches CCCR: apply_config, CCE cleared,
\* INIT cleared, the wait for INIT to read clear.
leave_init_mode(c, cfg) ==
    [apply_config(c, cfg) EXCEPT !.cce = FALSE, !.init = FALSE]

\* set_loopback_mode: the (mon, lbck) it writes.
LoopbackMon(m)  == m \in {"Internal", "External"}
LoopbackLbck(m) == m = "Internal"

\* The mode side of a handle created by FdCan::new.
InitMode ==
    /\ mode = "PoweredDown"
    /\ mpc = "idle"
    /\ cccr = CccrReset
    /\ lbck = FALSE
    /\ config = ConfigDefault
    /\ nbtp = Nbtp(NbtDefault)
    /\ dbtp = Dbtp(DbtDefault)
    /\ ckdiv = 0
    /\ ils = {}
    /\ tscc = Tscc("None")
    /\ ie = {}
    /\ ile = {}
    /\ rxgfc = RxgfcReset
    /\ lastOp = None
    /\ txWrote = FALSE
    /\ bulk = NoBulk
    /\ handle = "unified"

\* The mode side after FdCan::new(..).into_config_mode().into_normal().
InitNormal ==
    /\ mode = "Normal"
    /\ mpc = "idle"
    /\ cccr = leave_init_mode(enter_init_mode(CccrReset), ConfigDefault)
    /\ lbck = FALSE
    /\ config = ConfigDefault
    /\ nbtp = Nbtp(NbtDefault)
    /\ dbtp = Dbtp(DbtDefault)
    /\ ckdiv = 0
    /\ ils = {}
    /\ tscc = Tscc("None")
    /\ ie = {}
    /\ ile = {}
    /\ flssa = [i \in StandardFilterSlots |-> "disable"]
    /\ flesa = [i \in ExtendedFilterSlots |-> "disable"]
    /\ rxgfc = RxgfcListSizes
    /\ lastOp = None
    /\ txWrote = FALSE
    /\ bulk = NoBulk
    /\ handle = "unified"

\* The receive side once the peripheral is out of reset: both FIFOs empty,
\* nothing lost.  Message RAM is not cleared by the driver.
InitRx ==
    /\ rxfl = [f \in Fifos |-> 0]
    /\ rxgi = [f \in Fifos |-> 0]
    /\ rxlost = [f \in Fifos |-> FALSE]
    /\ rpc = "idle"
    /\ rnr = 0
    /\ mbox = 0
    /\ rresult = None
    /\ handler = NoCall
    /\ acked = << >>
    /\ entryFl = 0
    /\ lostRead = None

Init ==
    /\ InitTx
    /\ InitRx
    /\ fxsa = [f \in Fifos |-> [m \in Mailboxes |-> 3]]
    /\ InitNormal

Next ==
    \/ Transmit /\ UNCHANGED nontx
    \/ TransmitPut /\ UNCHANGED nontx
    \/ TransmitScan /\ UNCHANGED nontx
    \/ AbortCheck /\ UNCHANGED nontx
    \/ AbortRequest /\ UNCHANGED nontx
    \/ AbortWait /\ UNCHANGED nontx
    \/ WriteMailbox /\ UNCHANGED nontx
    \/ Abort /\ UNCHANGED nontx
    \/ Return /\ UNCHANGED nontx
    \/ Hardware /\ UNCHANGED nontx

Spec == Init /\ [][Next]_vars

-----------------------------------------------------------------------------
(* Properties of the transmit engine *)

\* The buffer really holds a pending request (bit m of TXBRP).
Pending(m) == m \in trp

\* Every mailbox holds a pending frame of priority >= the frame id's.
AllHoldAtLeast(id) == \A m \in Mailboxes : Pending(m) /\ IdRegLe(id, tbsa[m])

\* Mailbox m is a preemption candidate for a frame with identifier id.
Candidate(m, id) == ~Pending(m) \/ ~IdRegLe(id, tbsa[m])

\* The least number of 32-bit words covering n bytes.
CeilWords(n) == CHOOSE w \in 0..(n + 1) : 4 * w >= n /\ \A v \in 0..w : 4 * v >= n => v = w

\* C1: transmit returns would-block if and only if all 3 mailboxes hold a
\* pending frame of priority equal to or higher than the new frame's: a
\* frame is never accepted (about to be written) while they all do, and
\* would-block is only reported when the queue was full.
C1_WouldBlockIff ==
    /\ (op = "transmit" /\ pc = "write") => ~AllHoldAtLeast(frameId)
    /\ (op = "transmit" /\ result = "WouldBlock") => entryTrp = Mailboxes

\* C2: a mailbox whose pending frame transmit cancels or overwrites held a
\* frame of strictly lower priority than the incoming frame.
C2_NeverEvictsHigherOrEqual ==
    [][ /\ (pc = "write" /\ pc' = "done" /\ Pending(idx))
            => ~IdRegLe(frameId, tbsa[idx])
        /\ (op = "transmit" /\ pc = "abort_req" /\ pc' = "abort_wait")
            => \A m \in tcr' \ tcr : ~IdRegLe(frameId, tbsa[m]) ]_vars

\* C3: transmit never reports would-block when a mailbox was free at the
\* call.
C3_NoWouldBlockWithFreeMailbox ==
    (op = "transmit" /\ pc = "done" /\ entryTrp # Mailboxes)
        => result # "WouldBlock"

C3_Witness ==
    /\ op = "transmit"
    /\ pc = "done"
    /\ entryTrp = {0, 2}
    /\ result = "OkNone"

\* C4 (as amended): when the queue is not full, transmit writes the header
\* into the slot the put index names, hands the payload writer exactly
\* ceil(length/4) words for every length in 0..64, sets the add request of
\* exactly that mailbox and returns success with no displaced frame.
C4_PutPath ==
    /\ (op = "transmit" /\ pc = "write" /\ ~queue_is_full)
        => idx = tfqpi /\ ~Pending(idx)
    /\ (op = "transmit" /\ pc = "done" /\ ~queue_is_full)
        => /\ result = "OkNone"
           /\ written.mb = idx
           /\ tbsa[idx] = frameId
           /\ written.words = CeilWords(written.len)
           /\ written.ar = {idx}

C4_Witness ==
    /\ op = "transmit"
    /\ pc = "done"
    /\ ~queue_is_full
    /\ written.len = 61
    /\ written.words = 16
    /\ written.mb = 2

\* C4 (as claimed): C4_PutPath, and into an empty queue the mailbox is 0.
C4_EmptyQueueIsMailbox0 ==
    /\ C4_PutPath
    /\ (op = "transmit" /\ pc = "done" /\ entryTrp = {}) => written.mb = 0

\* C5: on the full-queue path, with the peripheral quiet since the call,
\* the mailbox transmit picks is the lowest-index preemption candidate.
C5_LowestCandidate ==
    (op = "transmit" /\ pc = "abort" /\ trp = entryTrp)
        => /\ Candidate(idx, frameId)
           /\ \A j \in Mailboxes : j < idx => ~Candidate(j, frameId)

\* C6: on the full-queue path transmit reports a displaced frame exactly
\* when the frame pending in the chosen mailbox was not sent by the
\* peripheral before the slot was taken over.
C6_DisplacedIffAbortWon ==
    (op = "transmit" /\ pc = "done" /\ queue_is_full
        /\ result # "WouldBlock")
        => (result = "OkSome" <=> written.mb \notin sent)

\* C7: transmit writes a mailbox slot only when that slot holds no pending
\* transmission request.
C7_WriteOnlyFreeSlot ==
    (op = "transmit" /\ pc = "write") => ~Pending(idx)

\* C8: of two pending frames with the same identifier, the peripheral
\* never sends the later accepted one first.
C8_OrderPreserved ==
    [][ \A m \in Mailboxes :
            HwTransmit(m) =>
                \A j \in trp \ {m} :
                    tbsa[j] = tbsa[m] => Before(order, m, j) ]_vars

\* C9: abort(m) on a mailbox without a pending frame returns false and
\* writes no cancellation request.
C9_AbortEmptyNoEffect ==
    (op = "abort" /\ pc = "done" /\ idx \notin entryTrp)
        => result = "false" /\ crWritten = {}

\* C10: abort(m) on a mailbox with a pending frame requests the
\* cancellation of m alone and returns true exactly when the frame was not
\* sent.
C10_AbortPending ==
    (op = "abort" /\ pc = "done" /\ idx \in entryTrp)
        => crWritten = {idx} /\ (result = "true" <=> idx \notin sent)

-----------------------------------------------------------------------------
(* The peripheral's receive side *)

\* The element the peripheral writes next.
RxPut(f) == (rxgi[f] + rxfl[f]) % 3

\* A frame of len bytes passes the filters into FIFO f.  A full FIFO keeps
\* its elements (blocking mode); the frame is dropped and RFnL is set.
HwStore(f, len) ==
    /\ IF rxfl[f] < 3
       THEN /\ fxsa' = [fxsa EXCEPT ![f][RxPut(f)] = len]
            /\ rxfl' = [rxfl EXCEPT ![f] = rxfl[f] + 1]
            /\ UNCHANGED rxlost
       ELSE /\ rxlost' = [rxlost EXCEPT ![f] = TRUE]
            /\ UNCHANGED << fxsa, rxfl >>
    /\ UNCHANGED << rxgi, rxlocal >>

\* A write of index i to RXFnA.FnAI: the get index moves behind i and the
\* fill level drops by one.  The peripheral ignores it while the FIFO is
\* empty.
HwAcknowledge(f, i) ==
    IF rxfl[f] > 0
    THEN /\ rxgi' = [rxgi EXCEPT ![f] = (i + 1) % 3]
         /\ rxfl' = [rxfl EXCEPT ![f] = rxfl[f] - 1]
    ELSE UNCHANGED << rxgi, rxfl >>

-----------------------------------------------------------------------------
(* Rx::receive *)

\* Rx::rx_fifo_is_empty: `can.rxf0s.read().f0fl().bits() != 0`.
rx_fifo_is_empty(f) == rxfl[f] # 0

\* Rx::has_overrun: RXFnS.RFnL.
has_overrun(f) == rxlost[f]

\* Rx::get_rx_mailbox: Mailbox::new(FnGI).
get_rx_mailbox(f) == Mailbox_new(rxgi[f])

\* End of the payload slice handed to the closure:
\* `&mailbox.data[0..header.len as usize]`.
rx_slice_end(len) == len

\* The wrapping of the result: `if self.has_overrun() { NoOverrun } else
\* { Overrun }`.
rx_wrap(overrun) == IF overrun THEN "NoOverrun" ELSE "Overrun"

\* FdCan::receive0 / receive1, Rx::receive: `if !self.rx_fifo_is_empty()`.
ReceiveCall(nr) ==
    /\ rpc = "idle"
    /\ rnr' = nr
    /\ entryFl' = rxfl[nr]
    /\ IF ~rx_fifo_is_empty(nr)
       THEN /\ rpc' = "get"
            /\ UNCHANGED rresult
       ELSE /\ rresult' = "WouldBlock"
            /\ rpc' = "done"
    /\ UNCHANGED << rxhw, mbox, handler, acked, lostRead >>

\* `let mbox = self.get_rx_mailbox();`
ReceiveGet ==
    /\ rpc = "get"
    /\ mbox' = get_rx_mailbox(rnr)
    /\ rpc' = "read"
    /\ UNCHANGED << rxhw, rnr, rresult, handler, acked, entryFl, lostRead >>

\* The header is read from the element, the payload is sliced and the
\* closure runs on it.  A slice past the element's data words panics.
ReceiveRead ==
    /\ rpc = "read"
    /\ LET len == fxsa[rnr][mbox] IN
        IF rx_slice_end(len) > RxDataWords
        THEN /\ rresult' = "Panic"
             /\ rpc' = "done"
             /\ UNCHANGED handler
        ELSE /\ handler' = [calls |-> handler.calls + 1, slot |-> mbox,
                            len |-> len, words |-> rx_slice_end(len)]
             /\ rpc' = "release"
             /\ UNCHANGED rresult
    /\ UNCHANGED << rxhw, rnr, mbox, acked, entryFl, lostRead >>

\* A release made only when no frame was lost: the overrun flag is read
\* first and the element is kept when it is set.
ReceiveReleaseIfClean ==
    /\ rpc = "release"
    /\ IF has_overrun(rnr)
       THEN UNCHANGED << acked, rxgi, rxfl >>
       ELSE /\ acked' = Append(acked, Mailbox_u8(mbox))
            /\ HwAcknowledge(rnr, Mailbox_u8(mbox))
    /\ rpc' = "overrun"
    /\ UNCHANGED << rxlost, fxsa, rnr, mbox, rresult, handler, entryFl,
                    lostRead >>

\* Rx::release_mailbox: `can.rxf0a.write(|w| w.f0ai().bits(idx.into()))`.
ReceiveRelease ==
    /\ rpc = "release"
    /\ acked' = Append(acked, Mailbox_u8(mbox))
    /\ HwAcknowledge(rnr, Mailbox_u8(mbox))
    /\ rpc' = "overrun"
    /\ UNCHANGED << rxlost, fxsa, rnr, mbox, rresult, handler, entryFl,
                    lostRead >>

\* `if self.has_overrun() {..} else {..}` and the return.
ReceiveOverrun ==
    /\ rpc = "overrun"
    /\ lostRead' = IF has_overrun(rnr) THEN "set" ELSE "clear"
    /\ rresult' = rx_wrap(has_overrun(rnr))
    /\ rpc' = "done"
    /\ UNCHANGED << rxhw, rnr, mbox, handler, acked, entryFl >>

\* The call has returned; its locals are gone.
ReceiveReturn ==
    /\ rpc = "done"
    /\ rpc' = "idle"
    /\ rnr' = 0
    /\ mbox' = 0
    /\ rresult' = None
    /\ handler' = NoCall
    /\ acked' = << >>
    /\ entryFl' = 0
    /\ lostRead' = None
    /\ UNCHANGED rxhw

Receive   == \E nr \in Fifos : ReceiveCall(nr)
HardwareRx == \E f \in Fifos, len \in RxLens : HwStore(f, len)

InitRxRam ==
    /\ InitTx
    /\ InitRx
    /\ fxsa \in [Fifos -> [Mailboxes -> RxLens]]
    /\ InitNormal

NextRx ==
    \/ Receive /\ UNCHANGED nonrx
    \/ ReceiveGet /\ UNCHANGED nonrx
    \/ ReceiveRead /\ UNCHANGED nonrx
    \/ ReceiveRelease /\ UNCHANGED nonrx
    \/ ReceiveOverrun /\ UNCHANGED nonrx
    \/ ReceiveReturn /\ UNCHANGED nonrx
    \/ HardwareRx /\ UNCHANGED nonrx

SpecRx == InitRxRam /\ [][NextRx]_vars

-----------------------------------------------------------------------------
(* Properties of receive *)

\* C11: a receive on a FIFO whose fill level is zero returns would-block
\* and has no side effect: it never gets as far as reading an element, the
\* closure is not called and nothing is written to the acknowledge
\* register.
C11_EmptyWouldBlock ==
    (rpc # "idle" /\ entryFl = 0)
        => /\ rpc = "done"
           /\ rresult = "WouldBlock"
           /\ handler.calls = 0
           /\ acked = << >>

\* The call returned Ok(..), with or without the overrun mark.
RxOk == rresult \in {"Overrun", "NoOverrun"}

\* C12: a receive on a FIFO holding at least one element returns Ok after
\* calling the closure exactly once, on the element at the get index, and
\* acknowledging that element exactly once; the acknowledge moves the get
\* index on by one and takes one off the fill level.
C12_OneElementConsumed ==
    [][ /\ (rpc' = "done" /\ entryFl' >= 1)
            => /\ RxOk'
               /\ handler'.calls = 1
               /\ handler'.slot = mbox'
               /\ acked' = << mbox' >>
        /\ (rpc = "release" /\ rpc' = "overrun" /\ entryFl >= 1)
            => /\ mbox = rxgi[rnr]
               /\ rxgi'[rnr] = (rxgi[rnr] + 1) % 3
               /\ rxfl'[rnr] = rxfl[rnr] - 1 ]_vars

\* C13: the payload view the closure gets covers exactly the frame's
\* length: ceil(len / 4) words, the word count transmit uses, and the slice
\* never runs past the data words of the element.
C13_PayloadView ==
    /\ handler.calls >= 1 => handler.words = CeilWords(handler.len)
    /\ rresult # "Panic"

\* C14: a receive that returns Ok marks its result Overrun when the FIFO's
\* message-lost flag, read after the element was released, is set, and
\* NoOverrun when it is clear.
C14_OverrunMark ==
    (rpc = "done" /\ RxOk)
        => /\ acked # << >>
           /\ lostRead = "set" => rresult = "Overrun"
           /\ lostRead = "clear" => rresult = "NoOverrun"

-----------------------------------------------------------------------------
(* Transmit and receive under a peripheral that owes the driver nothing *)

\* The transmit and the receive side share no register and no part of
\* message RAM, so each is run against its own part of the peripheral.
TxQuiet == txvars = << {}, {}, {}, {}, 0, [m \in Mailboxes |-> 2047], << >>,
                      "idle", "none", 2047, FALSE, 0, None, None, NoWrite,
                      {}, {}, {} >>
RxQuiet == InitRx /\ fxsa = [f \in Fifos |-> [m \in Mailboxes |-> 3]]

\* The steps the CPU takes inside a running call.
TxStep ==
    /\ \/ TransmitPut
       \/ TransmitScan
       \/ AbortCheck
       \/ AbortRequest
       \/ AbortWait
       \/ WriteMailbox
    /\ UNCHANGED nontx
RxStep ==
    /\ \/ ReceiveGet
       \/ ReceiveRead
       \/ ReceiveRelease
       \/ ReceiveOverrun
    /\ UNCHANGED nonrx

\* Calls of the transmit half against the transmit side, receive calls on
\* either FIFO
\* against a peripheral that stores frames in FIFO 0.
NextNb ==
    \/ RxQuiet /\ Transmit /\ UNCHANGED nontx
    \/ RxQuiet /\ Abort /\ UNCHANGED nontx
    \/ RxQuiet /\ TxStep
    \/ RxQuiet /\ Return /\ UNCHANGED nontx
    \/ RxQuiet /\ Hardware /\ UNCHANGED nontx
    \/ TxQuiet /\ Receive /\ UNCHANGED nonrx
    \/ TxQuiet /\ RxStep
    \/ TxQuiet /\ ReceiveReturn /\ UNCHANGED nonrx
    \/ TxQuiet /\ (\E len \in RxLens : HwStore(0, len)) /\ UNCHANGED nonrx

SpecNb == Init /\ [][NextNb]_vars

\* How far a transmit, and a receive, has got.
TxRank ==
    CASE pc = "idle" -> 0
      [] pc = "put" -> 1
      [] pc = "scan" -> 1 + idx
      [] pc = "abort" -> 4
      [] pc = "abort_req" -> 5
      [] pc = "abort_wait" -> 6
      [] pc = "write" -> 7
      [] pc = "done" -> 8
RxRank ==
    CASE rpc = "idle" -> 0
      [] rpc = "get" -> 1
      [] rpc = "read" -> 2
      [] rpc = "release" -> 3
      [] rpc = "overrun" -> 4
      [] rpc = "done" -> 5

-----------------------------------------------------------------------------
(* The mode state machine *)

\* The peripheral raises and drops CCCR.CSA, its clock-stop acknowledge.
HwClockStop ==
    /\ cccr' = [cccr EXCEPT !.csa = ~cccr.csa]
    /\ UNCHANGED << mode, mpc, config, lbck, nbtp, dbtp, ckdiv, ils, tscc,
                    ie, ile, flssa, flesa, lastOp, txWrote, rxgfc, bulk,
                    handle >>

\* set_power_down_mode(enabled): `cccr.modify(|_, w| w.csa().bit(enabled))`;
\* it returns once CSA reads different from `enabled`.
set_power_down_mode(c, enabled) == [c EXCEPT !.csa = enabled]
power_down_wait_over(c, enabled) == c.csa # enabled

\* FdCan<I, PoweredDownMode>::into_config_mode, up to the wait inside
\* set_power_down_mode(false).
PowerUpRequest ==
    /\ mode = "PoweredDown" /\ mpc = "idle"
    /\ cccr' = set_power_down_mode(cccr, FALSE)
    /\ mpc' = "power_up_wait"
    /\ UNCHANGED << mode, config, lbck, nbtp, dbtp, ckdiv, ils, tscc, ie,
                    ile, flssa, flesa, lastOp, txWrote, rxgfc, bulk, handle >>

\* ... and from there: enter_init_mode, queue mode, the filter list sizes,
\* every filter element disabled.
PowerUpDone ==
    /\ mpc = "power_up_wait"
    /\ power_down_wait_over(cccr, FALSE)
    /\ cccr' = enter_init_mode(cccr)
    /\ rxgfc' = RxgfcListSizes
    /\ flssa' = [i \in StandardFilterSlots |-> "disable"]
    /\ flesa' = [i \in ExtendedFilterSlots |-> "disable"]
    /\ mode' = "Config"
    /\ mpc' = "idle"
    /\ lastOp' = None
    /\ txWrote' = FALSE
    /\ UNCHANGED << bulk, handle >>
    /\ UNCHANGED << config, lbck, nbtp, dbtp, ckdiv, ils, tscc, ie, ile >>

\* What into_<target> writes before leave_init_mode: set_loopback_mode,
\* set_restricted_operations(true), set_normal_operations(true) (a nop),
\* set_bus_monitoring_mode(true).
EnterFlags(c, target) ==
    CASE target = "InternalLoopback" -> [c EXCEPT !.mon = LoopbackMon("Internal")]
      [] target = "ExternalLoopback" -> [c EXCEPT !.mon = LoopbackMon("External")]
      [] target = "Restricted" -> [c EXCEPT !.asm = TRUE]
      [] target = "BusMonitoring" -> [c EXCEPT !.mon = TRUE]
      [] OTHER -> c
EnterLbck(l, target) ==
    CASE target = "InternalLoopback" -> LoopbackLbck("Internal")
      [] target = "ExternalLoopback" -> LoopbackLbck("External")
      [] OTHER -> l

\* What into_config_mode of an operating mode writes before
\* enter_init_mode: set_loopback_mode(None), set_restricted_operations(false),
\* set_normal_operations(false) (a nop), set_bus_monitoring_mode(false).
ExitFlags(c, from) ==
    CASE from \in {"InternalLoopback", "ExternalLoopback"} ->
             [c EXCEPT !.mon = LoopbackMon("None")]
      [] from = "Restricted" -> [c EXCEPT !.asm = FALSE]
      [] from = "BusMonitoring" -> [c EXCEPT !.mon = FALSE]
      [] OTHER -> c
ExitLbck(l, from) ==
    IF from \in {"InternalLoopback", "ExternalLoopback"}
    THEN LoopbackLbck("None") ELSE l

\* set_test_mode: todo!().
Panics ==
    /\ mpc' = "panic"
    /\ UNCHANGED << mode, config, modehw, lastOp, txWrote, bulk, handle >>

\* The registers leave_init_mode writes through apply_config: DBTP, NBTP,
\* CCCR, ILS; then CCE and INIT are cleared.
LeaveInitMode(c) ==
    /\ cccr' = leave_init_mode(c, config)
    /\ dbtp' = Dbtp(config.dbtr)
    /\ nbtp' = Nbtp(config.nbtr)
    /\ ils' = config.interrupt_line_config
    /\ UNCHANGED << config, ckdiv, tscc, ie, ile, flssa, flesa, rxgfc >>

\* FdCan<I, ConfigMode>::into_internal_loopback, into_external_loopback,
\* into_restricted, into_normal, into_bus_monitoring, into_test_mode.
IntoMode(target) ==
    /\ mode = "Config" /\ mpc = "idle"
    /\ IF target = "Test"
       THEN Panics
       ELSE /\ lbck' = EnterLbck(lbck, target)
            /\ LeaveInitMode(EnterFlags(cccr, target))
            /\ mode' = target
            /\ lastOp' = None
            /\ txWrote' = FALSE
            /\ UNCHANGED << bulk, handle >>
            /\ UNCHANGED mpc

\* FdCan<I, ConfigMode>::into_powered_down, up to the wait inside
\* set_power_down_mode(true).
PowerDownRequest ==
    /\ mode = "Config" /\ mpc = "idle"
    /\ cccr' = set_power_down_mode(cccr, TRUE)
    /\ mpc' = "power_down_wait"
    /\ UNCHANGED << mode, config, lbck, nbtp, dbtp, ckdiv, ils, tscc, ie,
                    ile, flssa, flesa, lastOp, txWrote, rxgfc, bulk, handle >>

\* ... and from there: leave_init_mode.
PowerDownDone ==
    /\ mpc = "power_down_wait"
    /\ power_down_wait_over(cccr, TRUE)
    /\ LeaveInitMode(cccr)
    /\ mode' = "PoweredDown"
    /\ mpc' = "idle"
    /\ lastOp' = None
    /\ txWrote' = FALSE
    /\ UNCHANGED << bulk, handle >>
    /\ UNCHANGED lbck

\* into_config_mode of InternalLoopback, ExternalLoopback, Normal,
\* Restricted, BusMonitoring and Test.
IntoConfigMode ==
    /\ mode \in OperatingModes /\ mpc = "idle"
    /\ IF mode = "Test"
       THEN Panics
       ELSE /\ cccr' = enter_init_mode(ExitFlags(cccr, mode))
            /\ lbck' = ExitLbck(lbck, mode)
            /\ mode' = "Config"
            /\ lastOp' = None
            /\ txWrote' = FALSE
            /\ UNCHANGED << bulk, handle >>
            /\ UNCHANGED << mpc, config, nbtp, dbtp, ckdiv, ils, tscc, ie,
                            ile, flssa, flesa, rxgfc >>

-----------------------------------------------------------------------------
(* impl FdCan<I, ConfigMode>: the setters *)

InConfig == mode = "Config" /\ mpc = "idle"

SetNominalBitTiming(btr) ==
    /\ InConfig
    /\ config' = [config EXCEPT !.nbtr = btr]
    /\ nbtp' = Nbtp(btr)
    /\ UNCHANGED << mode, mpc, cccr, lbck, dbtp, ckdiv, ils, tscc, ie, ile,
                    flssa, flesa, lastOp, txWrote, rxgfc, bulk, handle >>

SetDataBitTiming(btr) ==
    /\ InConfig
    /\ config' = [config EXCEPT !.dbtr = btr]
    /\ dbtp' = Dbtp(btr)
    /\ UNCHANGED << mode, mpc, cccr, lbck, nbtp, ckdiv, ils, tscc, ie, ile,
                    flssa, flesa, lastOp, txWrote, rxgfc, bulk, handle >>

\* The setters that write CCCR only.
SetCccr(c, cfg) ==
    /\ InConfig
    /\ cccr' = c
    /\ config' = cfg
    /\ UNCHANGED << mode, mpc, lbck, nbtp, dbtp, ckdiv, ils, tscc, ie, ile,
                    flssa, flesa, lastOp, txWrote, rxgfc, bulk, handle >>

SetAutomaticRetransmit(enabled) ==
    SetCccr(set_automatic_retransmit(cccr, enabled),
            [config EXCEPT !.automatic_retransmit = enabled])

SetTransmitPause(enabled) ==
    SetCccr(set_transmit_pause(cccr, enabled),
            [config EXCEPT !.transmit_pause = enabled])

SetNonIsoMode(enabled) ==
    SetCccr(set_non_iso_mode(cccr, enabled),
            [config EXCEPT !.non_iso_mode = enabled])

SetEdgeFiltering(enabled) ==
    SetCccr(set_edge_filtering(cccr, enabled),
            [config EXCEPT !.edge_filtering = enabled])

SetFrameTransmit(fts) ==
    SetCccr(set_frame_transmit(cccr, fts),
            [config EXCEPT !.frame_transmit = fts])

SetProtocolExceptionHandling(enabled) ==
    SetCccr(set_protocol_exception_handling(cccr, enabled),
            [config EXCEPT !.protocol_exception_handling = enabled])

\* set_interrupt_line_config: `ils.write(|w| w.bits(l0int.bits()))`.
SetInterruptLineConfig(l0int) ==
    /\ InConfig
    /\ ils' = l0int
    /\ config' = [config EXCEPT !.interrupt_line_config = l0int]
    /\ UNCHANGED << mode, mpc, cccr, lbck, nbtp, dbtp, ckdiv, tscc, ie, ile,
                    flssa, flesa, lastOp, txWrote, rxgfc, bulk, handle >>

\* set_clock_divider: `ckdiv.write(|w| w.pdiv().bits(div as u8))`.
SetClockDivider(div) ==
    /\ InConfig
    /\ ckdiv' = div
    /\ config' = [config EXCEPT !.clock_divider = div]
    /\ UNCHANGED << mode, mpc, cccr, lbck, nbtp, dbtp, ils, tscc, ie, ile,
                    flssa, flesa, lastOp, txWrote, rxgfc, bulk, handle >>

SetTimestampCounterSource(select) ==
    /\ InConfig
    /\ tscc' = Tscc(select)
    /\ config' = [config EXCEPT !.timestamp_source = select]
    /\ UNCHANGED << mode, mpc, cccr, lbck, nbtp, dbtp, ckdiv, ils, ie, ile,
                    flssa, flesa, lastOp, txWrote, rxgfc, bulk, handle >>

\* apply_config(config): the nine setters it calls, each storing its field
\* in the snapshot and writing its register.  set_clock_divider and
\* set_timestamp_counter_source are not among them.
ApplyConfig(c) ==
    /\ InConfig
    /\ dbtp' = Dbtp(c.dbtr)
    /\ nbtp' = Nbtp(c.nbtr)
    /\ cccr' = apply_config(cccr, c)
    /\ ils' = c.interrupt_line_config
    /\ config' = [c EXCEPT !.clock_divider = config.clock_divider,
                           !.timestamp_source = config.timestamp_source]
    /\ UNCHANGED << ckdiv, tscc >>
    /\ UNCHANGED << mode, mpc, lbck, ie, ile, flssa, flesa, rxgfc, lastOp,
                    txWrote, bulk, handle >>

-----------------------------------------------------------------------------
(* impl<I, MODE> FdCan<I, MODE>: operations of a handle in any mode *)

HandleIdle == mode \in Modes /\ mpc = "idle"

EnableInterruptLine(line, enabled) ==
    /\ HandleIdle
    /\ ile' = IF enabled THEN ile \cup {line} ELSE ile \ {line}
    /\ UNCHANGED << mode, mpc, config, cccr, lbck, nbtp, dbtp, ckdiv, ils,
                    tscc, ie, flssa, flesa, lastOp, txWrote, rxgfc, bulk,
                    handle >>

\* enable_interrupt / enable_interrupts: IE |= interrupts.
EnableInterrupts(interrupts) ==
    /\ HandleIdle
    /\ ie' = ie \cup interrupts
    /\ UNCHANGED << mode, mpc, config, cccr, lbck, nbtp, dbtp, ckdiv, ils,
                    tscc, ile, flssa, flesa, lastOp, txWrote, rxgfc, bulk,
                    handle >>

\* disable_interrupt / disable_interrupts: IE &= !interrupts.
DisableInterrupts(interrupts) ==
    /\ HandleIdle
    /\ ie' = ie \ interrupts
    /\ UNCHANGED << mode, mpc, config, cccr, lbck, nbtp, dbtp, ckdiv, ils,
                    tscc, ile, flssa, flesa, lastOp, txWrote, rxgfc, bulk,
                    handle >>

SetStandardFilter(slot, filter) ==
    /\ HandleIdle
    /\ flssa' = [flssa EXCEPT ![slot] = filter]
    /\ UNCHANGED << mode, mpc, config, cccr, lbck, nbtp, dbtp, ckdiv, ils,
                    tscc, ie, ile, flesa, lastOp, txWrote, rxgfc, bulk,
                    handle >>

SetExtendedFilter(slot, filter) ==
    /\ HandleIdle
    /\ flesa' = [flesa EXCEPT ![slot] = filter]
    /\ UNCHANGED << mode, mpc, config, cccr, lbck, nbtp, dbtp, ckdiv, ils,
                    tscc, ie, ile, flssa, lastOp, txWrote, rxgfc, bulk,
                    handle >>

\* The operations of `impl FdCan<I, M: Transmit>` and of
\* `impl FdCan<I, M: Receive>`.
TransmitOps == {"transmit", "abort", "is_transmitter_idle"}
ReceiveOps  == {"receive0", "receive1"}

\* A handle offers an operation when its mode implements the trait that
\* bounds the operation's impl block.
ModesOffering(o) == IF o \in TransmitOps THEN TransmitModes ELSE ReceiveModes

\* An operation of the two blocks is called; transmit may write TXBAR and
\* TXBCR, abort may write TXBCR, the others write neither.
CallOp(o) ==
    /\ mpc = "idle"
    /\ mode \in ModesOffering(o)
    /\ lastOp' = o
    /\ \E w \in BOOLEAN :
         txWrote' = (txWrote \/ (w /\ o \in {"transmit", "abort"}))
    /\ UNCHANGED << bulk, handle >>
    /\ UNCHANGED << mode, mpc, config, modehw >>

\* An operation whose body is todo!(): the call panics.
Todo(o) ==
    /\ mpc' = "panic"
    /\ lastOp' = o
    /\ UNCHANGED << mode, config, modehw, txWrote, bulk, handle >>

\* clear_request_completed_flag: todo!() (the rest is commented out).
ClearRequestCompletedFlag ==
    HandleIdle /\ Todo("clear_request_completed_flag")

\* clear_tx_interrupt: `while self.clear_request_completed_flag().is_some() {}`.
ClearTxInterrupt == HandleIdle /\ Todo("clear_tx_interrupt")

\* Tx::clear_interrupt_flags: todo!().  A Tx half comes from split, which
\* needs a mode that implements Transmit and Receive.
TxClearInterruptFlags ==
    /\ mpc = "idle"
    /\ mode \in TransmitModes \cap ReceiveModes
    /\ Todo("clear_interrupt_flags")

-----------------------------------------------------------------------------
IntoOperating == \E target \in OperatingModes : IntoMode(target)
ConfigSetter ==
    \/ \E btr \in NominalBitTimings : SetNominalBitTiming(btr)
    \/ \E btr \in DataBitTimings : SetDataBitTiming(btr)
    \/ \E enabled \in BOOLEAN : SetAutomaticRetransmit(enabled)
    \/ \E enabled \in BOOLEAN : SetTransmitPause(enabled)
    \/ \E enabled \in BOOLEAN : SetNonIsoMode(enabled)
    \/ \E enabled \in BOOLEAN : SetEdgeFiltering(enabled)
    \/ \E fts \in FrameTransmissionConfigs : SetFrameTransmit(fts)
    \/ \E enabled \in BOOLEAN : SetProtocolExceptionHandling(enabled)
    \/ \E l0int \in {{}, InterruptBits} : SetInterruptLineConfig(l0int)
    \/ \E div \in ClockDividers : SetClockDivider(div)
    \/ \E select \in TimestampSources : SetTimestampCounterSource(select)
AnyModeOp ==
    \/ \E line \in InterruptLines, enabled \in BOOLEAN :
           EnableInterruptLine(line, enabled)
    \/ \E interrupts \in SUBSET InterruptBits : EnableInterrupts(interrupts)
    \/ \E interrupts \in SUBSET InterruptBits : DisableInterrupts(interrupts)
    \/ \E slot \in StandardFilterSlots, filter \in FilterElements :
           SetStandardFilter(slot, filter)
    \/ \E slot \in ExtendedFilterSlots, filter \in FilterElements :
           SetExtendedFilter(slot, filter)
TraitOp == \E o \in TransmitOps \cup ReceiveOps : CallOp(o)
ApplyConfigOp == \E c \in AppliedConfigs : ApplyConfig(c)
TodoOp == ClearRequestCompletedFlag \/ ClearTxInterrupt \/ TxClearInterruptFlags

\* A handle fresh from FdCan::new; message RAM holds whatever it held.
InitModeRam ==
    /\ InitTx
    /\ InitRx
    /\ fxsa = [f \in Fifos |-> [m \in Mailboxes |-> 3]]
    /\ InitMode
    /\ flssa \in [StandardFilterSlots -> FilterElements]
    /\ flesa \in [ExtendedFilterSlots -> FilterElements]

\* Transitions, the operations open to every mode and the trait-bound
\* operations, on the configuration FdCan::new starts with.
NextMode ==
    \/ PowerUpRequest /\ UNCHANGED << txvars, rxvars >>
    \/ PowerUpDone /\ UNCHANGED << txvars, rxvars >>
    \/ IntoOperating /\ UNCHANGED << txvars, rxvars >>
    \/ PowerDownRequest /\ UNCHANGED << txvars, rxvars >>
    \/ PowerDownDone /\ UNCHANGED << txvars, rxvars >>
    \/ IntoConfigMode /\ UNCHANGED << txvars, rxvars >>
    \/ AnyModeOp /\ UNCHANGED << txvars, rxvars >>
    \/ TraitOp /\ UNCHANGED << txvars, rxvars >>
    \/ TodoOp /\ UNCHANGED << txvars, rxvars >>
    \/ HwClockStop /\ UNCHANGED << txvars, rxvars >>

SpecMode == InitModeRam /\ [][NextMode]_vars

\* A handle that has just become FdCan<I, ConfigMode>:
\* FdCan::new(..).into_config_mode().
InitConfigMode ==
    /\ InitTx
    /\ InitRx
    /\ fxsa = [f \in Fifos |-> [m \in Mailboxes |-> 3]]
    /\ mode = "Config"
    /\ mpc = "idle"
    /\ cccr = enter_init_mode([CccrReset EXCEPT !.csa = TRUE])
    /\ lbck = FALSE
    /\ config = ConfigDefault
    /\ nbtp = Nbtp(NbtDefault)
    /\ dbtp = Dbtp(DbtDefault)
    /\ ckdiv = 0
    /\ ils = {}
    /\ tscc = Tscc("None")
    /\ ie = {}
    /\ ile = {}
    /\ flssa = [i \in StandardFilterSlots |-> "disable"]
    /\ flesa = [i \in ExtendedFilterSlots |-> "disable"]
    /\ rxgfc = RxgfcListSizes
    /\ lastOp = None
    /\ txWrote = FALSE
    /\ bulk = NoBulk
    /\ handle = "unified"

\* The setters of Config mode, apply_config, and leaving Config for an
\* operating mode and coming back.
NextConfig ==
    \/ ConfigSetter /\ UNCHANGED << txvars, rxvars >>
    \/ ApplyConfigOp /\ UNCHANGED << txvars, rxvars >>
    \/ IntoOperating /\ UNCHANGED << txvars, rxvars >>
    \/ IntoConfigMode /\ UNCHANGED << txvars, rxvars >>

SpecConfig == InitConfigMode /\ [][NextConfig]_vars

-----------------------------------------------------------------------------
(* The mode transitions step by step, with a peripheral that answers late *)

\* The peripheral brings CCCR.INIT, as read, to the value last written:
\* set while enter_init_mode waits, clear while leave_init_mode waits.
HwInit ==
    /\ \/ mpc \in {"enter_init_wait", "free_init_wait"} /\ ~cccr.init
       \/ mpc = "leave_init_wait" /\ cccr.init
    /\ cccr' = [cccr EXCEPT !.init = ~cccr.init]
    /\ UNCHANGED << mode, mpc, config, lbck, nbtp, dbtp, ckdiv, ils, tscc,
                    ie, ile, flssa, flesa, rxgfc, lastOp, txWrote, bulk,
                    handle >>

\* The power-down request a waiting set_power_down_mode has made.
PowerDownRequested == mpc \in {"power_down_wait", "free_power_wait"}

\* The peripheral acknowledges the request: CSA comes to read as requested.
HwClockAck == HwClockStop /\ cccr'.csa = PowerDownRequested

\* enter_init_mode up to its wait: `cccr.modify(|_, w| w.init().set_bit())`.
EnterInitRequest(c, waitpc) ==
    /\ cccr' = c
    /\ mpc' = waitpc
    /\ UNCHANGED << mode, config, nbtp, dbtp, ckdiv, ils, tscc, ile, flssa,
                    flesa, rxgfc, lastOp, txWrote, bulk, handle >>

\* PoweredDown -> Config once set_power_down_mode(false) has returned.
PowerUpAwake ==
    /\ mpc = "power_up_wait"
    /\ power_down_wait_over(cccr, FALSE)
    /\ EnterInitRequest(cccr, "enter_init_wait")
    /\ UNCHANGED << lbck, ie >>

\* into_config_mode of an operating mode up to the wait of enter_init_mode.
IntoConfigRequest ==
    /\ mode \in OperatingModes /\ mpc = "idle"
    /\ IF mode = "Test"
       THEN Panics
       ELSE /\ EnterInitRequest(ExitFlags(cccr, mode), "enter_init_wait")
            /\ lbck' = ExitLbck(lbck, mode)
            /\ UNCHANGED ie

\* `while can.cccr.read().init().bit_is_clear() {}` is over: CCE is set, and
\* on the way from PoweredDown the list sizes are written and every filter
\* element is disabled.  The handle returned is in Config mode.
EnterInitDone ==
    /\ mpc = "enter_init_wait"
    /\ cccr.init
    /\ cccr' = [cccr EXCEPT !.cce = TRUE]
    /\ IF mode = "PoweredDown"
       THEN /\ rxgfc' = RxgfcListSizes
            /\ flssa' = [i \in StandardFilterSlots |-> "disable"]
            /\ flesa' = [i \in ExtendedFilterSlots |-> "disable"]
       ELSE UNCHANGED << rxgfc, flssa, flesa >>
    /\ mode' = "Config"
    /\ mpc' = "idle"
    /\ lastOp' = None
    /\ txWrote' = FALSE
    /\ UNCHANGED << bulk, handle >>
    /\ UNCHANGED << config, lbck, nbtp, dbtp, ckdiv, ils, tscc, ie, ile >>

\* leave_init_mode up to its wait: apply_config, CCE cleared, INIT written
\* clear.  The handle being returned has the mode `target`.
LeaveInitRequest(c, target) ==
    /\ cccr' = [apply_config(c, config) EXCEPT !.cce = FALSE]
    /\ dbtp' = Dbtp(config.dbtr)
    /\ nbtp' = Nbtp(config.nbtr)
    /\ ils' = config.interrupt_line_config
    /\ mode' = target
    /\ mpc' = "leave_init_wait"
    /\ lastOp' = None
    /\ txWrote' = FALSE
    /\ UNCHANGED << bulk, handle >>
    /\ UNCHANGED << config, ckdiv, tscc, ie, ile, flssa, flesa, rxgfc >>

\* into_<target> of Config mode up to the wait of leave_init_mode.
IntoModeRequest(target) ==
    /\ mode = "Config" /\ mpc = "idle"
    /\ IF target = "Test"
       THEN Panics
       ELSE /\ lbck' = EnterLbck(lbck, target)
            /\ LeaveInitRequest(EnterFlags(cccr, target), target)

\* Config -> PoweredDown once set_power_down_mode(true) has returned.
PowerDownAwake ==
    /\ mpc = "power_down_wait"
    /\ power_down_wait_over(cccr, TRUE)
    /\ LeaveInitRequest(cccr, "PoweredDown")
    /\ UNCHANGED lbck

\* `while can.cccr.read().init().bit_is_set() {}` is over.
LeaveInitDone ==
    /\ mpc = "leave_init_wait"
    /\ ~cccr.init
    /\ mpc' = "idle"
    /\ UNCHANGED << mode, config, modehw, lastOp, txWrote, bulk, handle >>

\* FdCan<I, PoweredDownMode>::free up to the wait of enter_init_mode:
\* disable_interrupts(Interrupts::all()), INIT written set.
FreeRequest ==
    /\ mode = "PoweredDown" /\ mpc = "idle"
    /\ ie' = {}
    /\ EnterInitRequest(cccr, "free_init_wait")
    /\ UNCHANGED lbck

\* ... CCE set, then set_power_down_mode(true) up to its wait.
FreeInitDone ==
    /\ mpc = "free_init_wait"
    /\ cccr.init
    /\ cccr' = set_power_down_mode([cccr EXCEPT !.cce = TRUE], TRUE)
    /\ mpc' = "free_power_wait"
    /\ UNCHANGED << mode, config, lbck, nbtp, dbtp, ckdiv, ils, tscc, ie,
                    ile, flssa, flesa, rxgfc, lastOp, txWrote, bulk, handle >>

\* ... and free returns `self.control.instance`: no handle is left.
FreeDone ==
    /\ mpc = "free_power_wait"
    /\ power_down_wait_over(cccr, TRUE)
    /\ mode' = "Freed"
    /\ mpc' = "idle"
    /\ UNCHANGED << config, modehw, lastOp, txWrote, bulk, handle >>

\* FdCan::new on the instance free gave back: a PoweredDown handle with the
\* default configuration; no register is written.
New ==
    /\ mode = "Freed" /\ mpc = "idle"
    /\ mode' = "PoweredDown"
    /\ config' = ConfigDefault
    /\ UNCHANGED << mpc, modehw, lastOp, txWrote, bulk, handle >>

IntoOperatingRequest == \E target \in OperatingModes : IntoModeRequest(target)
SomeInterrupts == \E interrupts \in SUBSET InterruptBits :
                      EnableInterrupts(interrupts)

\* Every mode transition and free, each up to and from its busy-waits, on a
\* peripheral that answers when it likes.
NextLive ==
    \/ PowerUpRequest /\ UNCHANGED << txvars, rxvars >>
    \/ PowerUpAwake /\ UNCHANGED << txvars, rxvars >>
    \/ EnterInitDone /\ UNCHANGED << txvars, rxvars >>
    \/ IntoOperatingRequest /\ UNCHANGED << txvars, rxvars >>
    \/ LeaveInitDone /\ UNCHANGED << txvars, rxvars >>
    \/ IntoConfigRequest /\ UNCHANGED << txvars, rxvars >>
    \/ PowerDownRequest /\ UNCHANGED << txvars, rxvars >>
    \/ PowerDownAwake /\ UNCHANGED << txvars, rxvars >>
    \/ FreeRequest /\ UNCHANGED << txvars, rxvars >>
    \/ FreeInitDone /\ UNCHANGED << txvars, rxvars >>
    \/ FreeDone /\ UNCHANGED << txvars, rxvars >>
    \/ New /\ UNCHANGED << txvars, rxvars >>
    \/ SomeInterrupts /\ UNCHANGED << txvars, rxvars >>
    \/ HwInit /\ UNCHANGED << txvars, rxvars >>
    \/ HwClockStop /\ UNCHANGED << txvars, rxvars >>

\* The driver keeps running: a loop whose exit condition holds is left (a
\* poll of CSA, which the peripheral may raise and drop, catches the value
\* it waits for if that value keeps coming back).  The peripheral answers:
\* INIT follows what was written, CSA comes to the requested value.
Fairness ==
    /\ WF_vars(EnterInitDone /\ UNCHANGED << txvars, rxvars >>)
    /\ WF_vars(LeaveInitDone /\ UNCHANGED << txvars, rxvars >>)
    /\ WF_vars(FreeInitDone /\ UNCHANGED << txvars, rxvars >>)
    /\ SF_vars(PowerUpAwake /\ UNCHANGED << txvars, rxvars >>)
    /\ SF_vars(PowerDownAwake /\ UNCHANGED << txvars, rxvars >>)
    /\ SF_vars(FreeDone /\ UNCHANGED << txvars, rxvars >>)
    /\ WF_vars(HwInit /\ UNCHANGED << txvars, rxvars >>)
    /\ WF_vars(HwClockAck /\ UNCHANGED << txvars, rxvars >>)

SpecLive == InitModeRam /\ [][NextLive]_vars /\ Fairness

-----------------------------------------------------------------------------
(* The bit-timing encodings over the documented ranges *)

\* NominalBitTiming values inside the ranges its fields document
\* (prescaler 0..511, seg1 0..127, seg2 0..255, sync_jump_width 0..127):
\* the default with one field running over its whole range.
NominalInRange ==
    {[NbtDefault EXCEPT !.prescaler = v] : v \in 0..511}
        \cup {[NbtDefault EXCEPT !.seg1 = v] : v \in 0..127}
        \cup {[NbtDefault EXCEPT !.seg2 = v] : v \in 0..255}
        \cup {[NbtDefault EXCEPT !.sync_jump_width = v] : v \in 0..127}

\* DataBitTiming values inside the ranges its fields document (prescaler
\* 0..31, seg1 0..31, seg2 0..15, sync_jump_width 0..15).
DataInRange ==
    {[DbtDefault EXCEPT !.prescaler = v] : v \in 0..31}
        \cup {[DbtDefault EXCEPT !.seg1 = v] : v \in 0..31}
        \cup {[DbtDefault EXCEPT !.seg2 = v] : v \in 0..15}
        \cup {[DbtDefault EXCEPT !.sync_jump_width = v] : v \in 0..15}

\* A Config handle about to set a bit timing: the timing is held in the
\* snapshot slot the setter will store it to, the registers are as
\* into_config_mode left them.
InitTiming ==
    /\ InitTx
    /\ InitRx
    /\ fxsa = [f \in Fifos |-> [m \in Mailboxes |-> 3]]
    /\ mode = "Config"
    /\ mpc = "idle"
    /\ cccr = enter_init_mode([CccrReset EXCEPT !.csa = TRUE])
    /\ lbck = FALSE
    /\ config \in {[ConfigDefault EXCEPT !.nbtr = b] : b \in NominalInRange}
                    \cup {[ConfigDefault EXCEPT !.dbtr = b] : b \in DataInRange}
    /\ nbtp = Nbtp(NbtDefault)
    /\ dbtp = Dbtp(DbtDefault)
    /\ ckdiv = 0
    /\ ils = {}
    /\ tscc = Tscc("None")
    /\ ie = {}
    /\ ile = {}
    /\ flssa = [i \in StandardFilterSlots |-> "disable"]
    /\ flesa = [i \in ExtendedFilterSlots |-> "disable"]
    /\ rxgfc = RxgfcListSizes
    /\ lastOp = None
    /\ txWrote = FALSE
    /\ bulk = NoBulk
    /\ handle = "unified"

\* set_nominal_bit_timing and set_data_bit_timing on the timing held.
NextTiming ==
    \/ SetNominalBitTiming(config.nbtr) /\ UNCHANGED << txvars, rxvars >>
    \/ SetDataBitTiming(config.dbtr) /\ UNCHANGED << txvars, rxvars >>

SpecTiming == InitTiming /\ [][NextTiming]_vars

-----------------------------------------------------------------------------
(* set_standard_filters / set_extended_filters, one slot write at a time *)

\* The loop body with the first filter of the argument written to each slot.
set_filters_first(t, filters, i) == [t EXCEPT ![i] = filters[0]]

\* The loop body: `self.msg_ram_mut().filters.flssa[i].activate(*f)` for
\* the pair (i, f) of `filters.iter().enumerate()`.
set_filters_step(t, filters, i) == [t EXCEPT ![i] = filters[i]]

\* set_standard_filters(filters) / set_extended_filters(filters) is called:
\* the loop is about to write slot 0.
SetFiltersCall(table, filters) ==
    /\ HandleIdle
    /\ mpc' = "filters_loop"
    /\ bulk' = [table |-> table, filters |-> filters, k |-> 0,
                old |-> [standard |-> flssa, extended |-> flesa]]
    /\ UNCHANGED << mode, config, modehw, lastOp, txWrote, handle >>

\* One turn of the loop, or its end and the return.
SetFiltersStep ==
    /\ mpc = "filters_loop"
    /\ IF bulk.k \in DOMAIN bulk.filters
       THEN /\ IF bulk.table = "standard"
               THEN /\ flssa' = set_filters_step(flssa, bulk.filters, bulk.k)
                    /\ UNCHANGED flesa
               ELSE /\ flesa' = set_filters_step(flesa, bulk.filters, bulk.k)
                    /\ UNCHANGED flssa
            /\ bulk' = [bulk EXCEPT !.k = bulk.k + 1]
            /\ UNCHANGED mpc
       ELSE /\ mpc' = "idle"
            /\ bulk' = NoBulk
            /\ UNCHANGED << flssa, flesa >>
    /\ UNCHANGED << mode, config, cccr, lbck, nbtp, dbtp, ckdiv, ils, tscc,
                    ie, ile, rxgfc, lastOp, txWrote, handle >>

SetFilters ==
    \/ \E filters \in [StandardFilterSlots -> FilterElements] :
           SetFiltersCall("standard", filters)
    \/ \E filters \in [ExtendedFilterSlots -> FilterElements] :
           SetFiltersCall("extended", filters)

\* apply_config with the default configuration or with one that differs
\* from it in every field.
Reconfigure == \E c \in {ConfigDefault, ConfigAlt} : ApplyConfig(c)

\* A handle from FdCan::new onwards: the mode transitions, the filter,
\* interrupt, trait-bound and unfinished operations, and apply_config.
NextFilter ==
    \/ PowerUpRequest /\ UNCHANGED << txvars, rxvars >>
    \/ PowerUpDone /\ UNCHANGED << txvars, rxvars >>
    \/ IntoOperating /\ UNCHANGED << txvars, rxvars >>
    \/ PowerDownRequest /\ UNCHANGED << txvars, rxvars >>
    \/ PowerDownDone /\ UNCHANGED << txvars, rxvars >>
    \/ IntoConfigMode /\ UNCHANGED << txvars, rxvars >>
    \/ SetFilters /\ UNCHANGED << txvars, rxvars >>
    \/ SetFiltersStep /\ UNCHANGED << txvars, rxvars >>
    \/ AnyModeOp /\ UNCHANGED << txvars, rxvars >>
    \/ TraitOp /\ UNCHANGED << txvars, rxvars >>
    \/ TodoOp /\ UNCHANGED << txvars, rxvars >>
    \/ Reconfigure /\ UNCHANGED << txvars, rxvars >>
    \/ HwClockStop /\ UNCHANGED << txvars, rxvars >>

SpecFilter == InitModeRam /\ [][NextFilter]_vars

-----------------------------------------------------------------------------
(* One handle or its halves: split, combine, and the calls through each *)

\* The operations of the FdCan handle that run on the transmit queue and
\* the receive FIFOs, and the arguments they are called with.
SharedOps == {"transmit", "abort", "is_idle", "receive0", "receive1"}
ArgsOf(o) ==
    CASE o = "transmit" -> {256}
      [] o = "abort" -> Mailboxes
      [] OTHER -> {0}

\* The operations the halves have as `pub fn`: Tx::transmit, Tx::is_idle
\* and Rx::receive.  Tx::abort is `fn abort`, private to the module.
HalfOffers == {"transmit", "is_idle", "receive0", "receive1"}

\* The modes whose FdCan handle has the operation: `M: Receive` for
\* receive0 and receive1, `M: Transmit` for the others.
FdCanOffers(o) ==
    IF o \in {"receive0", "receive1"} THEN ReceiveModes ELSE TransmitModes

\* The modes that can be split: `M: Transmit + Receive`.
SplitModes == TransmitModes \cap ReceiveModes

\* Both Rx halves on the registers and the message RAM of FIFO 0.
NRSame(fifo) == 0

\* FifoNr::NR of Fifo0 and Fifo1; it selects RXFnS, RXFnA and
\* `msg_ram.receive[NR]`.
NR(fifo) == IF fifo = "Fifo0" THEN 0 ELSE 1

\* The half FdCan::receive0 / receive1 conjures: Rx<I, M, Fifo0> / Fifo1.
FdCanRx(o) == IF o = "receive0" THEN "Fifo0" ELSE "Fifo1"

\* The Rx half that is not the one on FIFO nr.
OtherRx(nr) == IF nr = 0 THEN "Fifo1" ELSE "Fifo0"

\* Tx::transmit, Tx::abort, Tx::is_idle, Rx<Fifo0>::receive and
\* Rx<Fifo1>::receive are entered.
HalfCall(o, arg) ==
    CASE o = "transmit" -> TransmitCall(arg) /\ UNCHANGED nontx
      [] o = "abort" -> AbortCall(arg) /\ UNCHANGED nontx
      [] o = "is_idle" -> IsIdleCall /\ UNCHANGED nontx
      [] o = "receive0" -> ReceiveCall(NR("Fifo0")) /\ UNCHANGED nonrx
      [] o = "receive1" -> ReceiveCall(NR("Fifo1")) /\ UNCHANGED nonrx

\* FdCan::transmit, abort, is_transmitter_idle, receive0 and receive1:
\* `unsafe { Tx::<I, M>::conjure().transmit(frame, write) }` and the like.
FdCanCall(o, arg) ==
    CASE o = "transmit" -> TransmitCall(arg) /\ UNCHANGED nontx
      [] o = "abort" -> AbortCall(arg) /\ UNCHANGED nontx
      [] o = "is_idle" -> IsIdleCall /\ UNCHANGED nontx
      [] OTHER -> ReceiveCall(NR(FdCanRx(o))) /\ UNCHANGED nonrx

\* A call through the FdCan handle; `&mut self`, so no other call runs.
ByUnified ==
    /\ handle = "unified" /\ pc = "idle" /\ rpc = "idle"
    /\ \E o \in SharedOps : \E arg \in ArgsOf(o) :
         mode \in FdCanOffers(o) /\ FdCanCall(o, arg)

\* A call through one of the halves; the other halves may be in a call.
ByHalves ==
    /\ handle = "split"
    /\ \E o \in HalfOffers : \E arg \in ArgsOf(o) : HalfCall(o, arg)

\* FdCan::split, of a mode that implements Transmit and Receive.
Split ==
    /\ handle = "unified" /\ pc = "idle" /\ rpc = "idle" /\ mpc = "idle"
    /\ mode \in SplitModes
    /\ handle' = "split"
    /\ UNCHANGED << txvars, rxvars, mode, mpc, config, modehw, lastOp,
                    txWrote, bulk >>

\* FdCan::combine: `Self::create_can(t.0.config, t.0.instance)`; the
\* halves are given up, so none is in a call.
Combine ==
    /\ handle = "split" /\ pc = "idle" /\ rpc = "idle"
    /\ handle' = "unified"
    /\ config' = config
    /\ UNCHANGED << txvars, rxvars, mode, mpc, modehw, lastOp, txWrote,
                    bulk >>

\* While one Rx half is in receive, the other Rx half, in a receive of its
\* own, releases the element it read: its one write, to the acknowledge
\* register of its FIFO.
OtherRxWrite ==
    /\ handle = "split" /\ rpc \notin {"idle", "done"}
    /\ LET f == NR(OtherRx(rnr)) IN
         rxfl[f] > 0 /\ HwAcknowledge(f, rxgi[f])
    /\ UNCHANGED << rxlost, fxsa, rxlocal, nonrx >>

\* The lengths of the frames transmitted through the handles.
SplitLens == {0, 8}

\* The calls through either kind of handle, the calls of the halves
\* running on step by step beside each other, and a peripheral that is
\* receiving: it stores frames and executes cancellations.
NextSplit ==
    \/ Split
    \/ Combine
    \/ ByUnified
    \/ ByHalves
    \/ TxStep /\ written'.len \in SplitLens
    \/ RxStep
    \/ Return /\ UNCHANGED nontx
    \/ ReceiveReturn /\ UNCHANGED nonrx
    \/ OtherRxWrite
    \/ (\E m \in Mailboxes : HwCancel(m)) /\ UNCHANGED nontx
    \/ (\E f \in Fifos : rxfl[f] = 0 /\ HwStore(f, 3)) /\ UNCHANGED nonrx

SpecSplit == Init /\ [][NextSplit]_vars

-----------------------------------------------------------------------------
(* Properties of the mode state machine *)

\* The transitions the mode machine is meant to have.
ModeTransitions ==
    {<< "PoweredDown", "Config" >>}
        \cup {<< "Config", t >> : t \in OperatingModes \cup {"PoweredDown"}}
        \cup {<< m, "Config" >> : m \in OperatingModes}

\* C16: the mode machine has exactly the transitions PoweredDown -> Config,
\* Config -> each operating mode and PoweredDown, each operating mode ->
\* Config.  No step changes the mode along any other pair; and each listed
\* transition, called on an idle handle with a peripheral that
\* acknowledges, ends with the handle in its target mode, never in a panic.
C16_ModeMachine ==
    /\ [][mode' # mode => << mode, mode' >> \in ModeTransitions]_vars
    /\ [](mpc # "panic")
    /\ []((mode = "Config" /\ mpc = "idle")
            => \A t \in OperatingModes : ENABLED (IntoMode(t) /\ mode' = t))
    /\ []((mode \in OperatingModes /\ mpc = "idle")
            => ENABLED (IntoConfigMode /\ mode' = "Config"))
    /\ []((mpc = "power_up_wait" /\ power_down_wait_over(cccr, FALSE))
            => ENABLED (PowerUpDone /\ mode' = "Config"))
    /\ []((mpc = "power_down_wait" /\ power_down_wait_over(cccr, TRUE))
            => ENABLED (PowerDownDone /\ mode' = "PoweredDown"))

\* C17: only Config mode permits bit-timing, filter and interrupt changes.
\* An operation called on a handle in any other mode, and leaving the
\* handle in that mode, changes none of NBTP, DBTP, the filter elements,
\* IE, ILE and ILS.
C17_OnlyConfigReconfigures ==
    [][(mode # "Config" /\ mode' = mode)
         => UNCHANGED << nbtp, dbtp, flssa, flesa, ie, ile, ils >>]_vars

\* C18: transmit, abort and is_transmitter_idle can be called in Normal,
\* InternalLoopback and ExternalLoopback and in no other mode; receive0 and
\* receive1 in those three, Restricted and BusMonitoring and in no other
\* mode.  So a handle in Restricted or BusMonitoring never writes a
\* transmit add-request or cancellation bit.
C18_TraitGating ==
    /\ \A o \in {"transmit", "abort", "is_transmitter_idle"} :
         mpc = "idle" =>
           (ENABLED CallOp(o)
              <=> mode \in {"Normal", "InternalLoopback", "ExternalLoopback"})
    /\ \A o \in {"receive0", "receive1"} :
         mpc = "idle" =>
           (ENABLED CallOp(o)
              <=> mode \in {"Normal", "InternalLoopback", "ExternalLoopback",
                            "Restricted", "BusMonitoring"})
    /\ lastOp \in {"transmit", "abort", "is_transmitter_idle"}
         => mode \in {"Normal", "InternalLoopback", "ExternalLoopback"}
    /\ mode \in {"Restricted", "BusMonitoring"} => ~txWrote

\* A Restricted handle has received, cannot transmit and has written no
\* transmit request.
C18_Witness ==
    /\ mode = "Restricted" /\ lastOp = "receive1" /\ ~txWrote
    /\ ~ENABLED CallOp("transmit")

\* The mode flags of the peripheral: CCCR.MON, TEST.LBCK, CCCR.ASM.
ModeFlags == << cccr.mon, lbck, cccr.asm >>

\* The flags (monitor, loopback, restricted) that define each mode.
DefiningFlags(m) ==
    CASE m = "Normal" -> << FALSE, FALSE, FALSE >>
      [] m = "InternalLoopback" -> << TRUE, TRUE, FALSE >>
      [] m = "ExternalLoopback" -> << FALSE, TRUE, FALSE >>
      [] m = "Restricted" -> << FALSE, FALSE, TRUE >>
      [] m = "BusMonitoring" -> << TRUE, FALSE, FALSE >>

\* C19: once a transition from Config into an operating mode has returned,
\* the mode flags hold the values that define the mode (Normal: none;
\* InternalLoopback: loopback and monitor; ExternalLoopback: loopback only;
\* Restricted: restricted only; BusMonitoring: monitor only), so no two
\* modes are entered with the same flags.
C19_ModeFlags ==
    mode \in {"Normal", "InternalLoopback", "ExternalLoopback", "Restricted",
              "BusMonitoring"}
        => ModeFlags = DefiningFlags(mode)

-----------------------------------------------------------------------------
(* Properties of the configuration setters *)

\* A configuration field's register holds the encoding of the snapshot's
\* value.
AgreeAutomaticRetransmit == cccr.dar = ~config.automatic_retransmit
AgreeTransmitPause       == cccr.txp = config.transmit_pause
AgreeNonIsoMode          == cccr.niso = config.non_iso_mode
AgreeEdgeFiltering       == cccr.efbi = config.edge_filtering
AgreeProtocolException   == cccr.pxhd = ~config.protocol_exception_handling
AgreeFrameTransmit ==
    /\ cccr.fdoe = (config.frame_transmit # "ClassicCanOnly")
    /\ cccr.brse = (config.frame_transmit = "AllowFdCanAndBRS")
AgreeRegisters ==
    /\ nbtp = Nbtp(config.nbtr)
    /\ dbtp = Dbtp(config.dbtr)
    /\ ckdiv = config.clock_divider
    /\ ils = config.interrupt_line_config
    /\ tscc = Tscc(config.timestamp_source)

\* C20: after any sequence of setters in Config mode every configuration
\* field's register field holds the encoding of the snapshot's value:
\* each setter leaves its own field in agreement, and no setter breaks the
\* agreement of another field.
C20_SettersKeepAgreement ==
    [][ /\ (\E e \in BOOLEAN : SetAutomaticRetransmit(e))
            => AgreeAutomaticRetransmit'
        /\ (\E e \in BOOLEAN : SetTransmitPause(e)) => AgreeTransmitPause'
        /\ (\E e \in BOOLEAN : SetNonIsoMode(e)) => AgreeNonIsoMode'
        /\ (\E e \in BOOLEAN : SetEdgeFiltering(e)) => AgreeEdgeFiltering'
        /\ (\E e \in BOOLEAN : SetProtocolExceptionHandling(e))
            => AgreeProtocolException'
        /\ (\E f \in FrameTransmissionConfigs : SetFrameTransmit(f))
            => AgreeFrameTransmit'
        /\ ConfigSetter =>
            /\ AgreeAutomaticRetransmit => AgreeAutomaticRetransmit'
            /\ AgreeTransmitPause => AgreeTransmitPause'
            /\ AgreeNonIsoMode => AgreeNonIsoMode'
            /\ AgreeEdgeFiltering => AgreeEdgeFiltering'
            /\ AgreeProtocolException => AgreeProtocolException'
            /\ AgreeFrameTransmit => AgreeFrameTransmit'
            /\ AgreeRegisters' ]_vars

-----------------------------------------------------------------------------
(* Properties of apply_config and of the defaults *)

\* CCCR holds the encoding of the configuration c in each of its
\* configuration fields.
CccrEncodes(r, c) ==
    /\ r.dar = ~c.automatic_retransmit
    /\ r.txp = c.transmit_pause
    /\ r.niso = c.non_iso_mode
    /\ r.efbi = c.edge_filtering
    /\ r.pxhd = ~c.protocol_exception_handling
    /\ r.fdoe = (c.frame_transmit # "ClassicCanOnly")
    /\ r.brse = (c.frame_transmit = "AllowFdCanAndBRS")

\* C21: the configuration is re-applied in full.  After apply_config(c) in
\* Config mode the stored snapshot equals c in every field, clock divider
\* and timestamp source included; and after the leave-init that follows
\* (into any operating mode) every register field holds the encoding of c:
\* CCCR, DBTP, NBTP, ILS, CKDIV and TSCC.
C21_ApplyConfigInFull ==
    [][\A c \in AppliedConfigs :
         ApplyConfig(c) =>
           /\ config' = c
           /\ \A t \in OperatingModes \ {"Test"} :
                /\ CccrEncodes(leave_init_mode(EnterFlags(cccr', t), config'), c)
                /\ Dbtp(config'.dbtr) = Dbtp(c.dbtr)
                /\ Nbtp(config'.nbtr) = Nbtp(c.nbtr)
                /\ config'.interrupt_line_config = c.interrupt_line_config
                /\ ckdiv' = c.clock_divider
                /\ tscc' = Tscc(c.timestamp_source)]_vars

-----------------------------------------------------------------------------
(* Termination of the mode transitions *)

\* C22: with a peripheral that eventually acknowledges every INIT request,
\* every INIT clear and every power-down request, every mode transition
\* that was called eventually returns: PoweredDown -> Config, Config -> each
\* operating mode, each operating mode -> Config, Config -> PoweredDown, and
\* free.  A call that has not returned is at a wait or has panicked.
C22_TransitionsReturn == (mpc # "idle") ~> (mpc = "idle")

-----------------------------------------------------------------------------
(* Properties of the bit-timing encodings *)

\* A register content read back as a timing.
NbtpAsTiming(r) ==
    [prescaler |-> r.nbrp, seg1 |-> r.ntseg1, seg2 |-> r.ntseg2,
     sync_jump_width |-> r.nsjw]
DbtpAsTiming(r) ==
    [prescaler |-> r.dbrp, seg1 |-> r.dtseg1, seg2 |-> r.dtseg2,
     sync_jump_width |-> r.dsjw]

\* C23: for every nominal and data bit-timing field value inside its
\* documented range, encode-then-mask leaves the value unchanged (what is
\* written to NBTP / DBTP is the value handed in), and it is idempotent
\* (encoding what was written gives what was written).
C23_MaskKeepsInRange ==
    [][ /\ SetNominalBitTiming(config.nbtr) =>
            /\ NbtpAsTiming(nbtp') = config.nbtr
            /\ Nbtp(NbtpAsTiming(nbtp')) = nbtp'
        /\ SetDataBitTiming(config.dbtr) =>
            /\ DbtpAsTiming(dbtp') = config.dbtr
            /\ Dbtp(DbtpAsTiming(dbtp')) = dbtp' ]_vars

\* C24: automatic retransmission is enabled by default.  A handle made by
\* FdCan::new and taken to an operating mode with no setter called has
\* automatic_retransmit true in its snapshot and CCCR.DAR, the
\* retransmission-disable bit, clear.
C24_RetransmitByDefault ==
    (mode \in OperatingModes /\ mpc = "idle")
        => (config.automatic_retransmit /\ ~cccr.dar)

\* C25: no public operation ends in an execution trap.  into_test_mode, the
\* Test -> Config transition, clear_request_completed_flag,
\* clear_tx_interrupt and Tx::clear_interrupt_flags, called on an idle
\* handle, each leave the driver running (completed, or returned with an
\* error), never panicked.
C25_NoTrap ==
    [][ (\/ IntoMode("Test")
         \/ mode = "Test" /\ IntoConfigMode
         \/ ClearRequestCompletedFlag
         \/ ClearTxInterrupt
         \/ TxClearInterruptFlags) => mpc' # "panic" ]_vars

\* C26: free, called on a PoweredDown handle, returns with every interrupt
\* enable bit clear whatever was enabled before, with the peripheral
\* powered down (CSA set) and INIT asserted, and hands back the raw
\* instance (no handle is left).
C26_FreeLeavesPoweredDown ==
    [][FreeDone => /\ ie' = {}
                   /\ cccr'.csa
                   /\ cccr'.init
                   /\ mode' = "Freed"]_vars

-----------------------------------------------------------------------------
(* Properties of the filter tables *)

\* The two list sizes at the capacity of the tables.
FullCapacity ==
    [lss |-> Cardinality(StandardFilterSlots),
     lse |-> Cardinality(ExtendedFilterSlots)]

\* C27: the PoweredDown -> Config transition sets the standard and the
\* extended filter list size to the full capacity of its table and leaves
\* every slot of both tables disabled; and whatever is called afterwards,
\* the list sizes stay at the full capacity.
C27_ListSizesPinned ==
    /\ [][PowerUpDone =>
            /\ rxgfc' = FullCapacity
            /\ \A i \in StandardFilterSlots : flssa'[i] = "disable"
            /\ \A i \in ExtendedFilterSlots : flesa'[i] = "disable"]_vars
    /\ [][rxgfc = FullCapacity => rxgfc' = FullCapacity]_vars
    /\ [](mode # "PoweredDown" => rxgfc = FullCapacity)

\* A handle that was reconfigured, got a filter and received, in Normal
\* mode, the list sizes still full.
C27_Witness ==
    /\ mode = "Normal" /\ mpc = "idle"
    /\ config.nbtr = NbtWide /\ nbtp = Nbtp(NbtWide)
    /\ flssa[1] = "accept_all"
    /\ lastOp = "receive0"
    /\ rxgfc = FullCapacity

\* The table a running set_*_filters call writes, and the other one.
BulkTable == IF bulk.table = "standard" THEN flssa ELSE flesa
OtherTable == IF bulk.table = "standard" THEN flesa ELSE flssa
OtherOld == IF bulk.table = "standard" THEN bulk.old.extended
            ELSE bulk.old.standard

\* C28: set_standard_filters(a) and set_extended_filters(a) overwrite the
\* whole table by per-slot writes in ascending slot order.  While the call
\* runs, with k slots written, the slots below k hold a[i] and the slots
\* from k on hold their old rule; each step writes slot k and no other;
\* when the call returns slot i holds a[i] for every i; the other table is
\* unchanged throughout.
C28_BulkWriteInOrder ==
    /\ [](mpc = "filters_loop" =>
            /\ \A i \in DOMAIN bulk.filters :
                 BulkTable[i] = IF i < bulk.k THEN bulk.filters[i]
                                ELSE bulk.old[bulk.table][i]
            /\ OtherTable = OtherOld)
    /\ [][(mpc = "filters_loop" /\ bulk'.k # bulk.k /\ mpc' = mpc) =>
            /\ bulk'.k = bulk.k + 1
            /\ \A i \in DOMAIN bulk.filters :
                 i # bulk.k => BulkTable'[i] = BulkTable[i]]_vars
    /\ [][(mpc = "filters_loop" /\ mpc' = "idle") =>
            /\ BulkTable = bulk.filters
            /\ IF bulk.table = "standard"
               THEN flssa' = bulk.filters /\ flesa' = OtherOld
               ELSE flesa' = bulk.filters /\ flssa' = OtherOld]_vars

\* set_standard_filters half way: slot 0 rewritten, slot 1 still old, both
\* different from what the other holds, the extended table untouched.
C28_Witness ==
    /\ mpc = "filters_loop" /\ bulk.table = "standard" /\ bulk.k = 1
    /\ flssa[0] = bulk.filters[0] /\ bulk.filters[0] # bulk.old.standard[0]
    /\ flssa[1] = bulk.old.standard[1] /\ bulk.filters[1] # flssa[1]
    /\ flesa[0] = "accept_all"

\* C29: a unified handle and a split are equally capable.  From every
\* state, a call of transmit, abort, is_idle, receive-from-FIFO-0 or
\* receive-from-FIFO-1 through the FdCan handle and the same call through
\* the Tx, Rx<Fifo0> and Rx<Fifo1> halves are the same step: each can be
\* made where the other can, with the same registers, message RAM and
\* locals afterwards (the steps that follow are then the same, and so is
\* the result).  combine after split gives a handle of the same mode and
\* configuration.
C29_SplitEquallyCapable ==
    /\ [][\A o \in SharedOps : \A arg \in ArgsOf(o) :
            (mode \in FdCanOffers(o) /\ FdCanCall(o, arg))
              <=> (mode \in SplitModes /\ o \in HalfOffers
                     /\ HalfCall(o, arg))]_vars
    /\ [][(handle = "split" /\ handle' = "unified") =>
            mode' = mode /\ config' = config]_vars

\* The registers and the part of message RAM the Tx half works on, and
\* those of the Rx half of FIFO f.
TxView == << trp, tcr, tcf, tto, tfqpi, tbsa >>
RxView(f) == << rxfl[f], rxgi[f], rxlost[f], fxsa[f] >>

\* The CPU takes a step in a call of the Tx half, of the Rx half in
\* receive, and of the other Rx half (the get index of a FIFO moves
\* without a step of the receive).
TxMoves == << pc, idx >>' # << pc, idx >>
RxMoves == rpc' # rpc
RxFifo == IF rpc = "idle" THEN rnr' ELSE rnr
OtherRxMoves == rpc \notin {"idle", "done"} /\ rpc' = rpc /\ rxgi' # rxgi

\* The Tx half alone with the peripheral, and the Rx halves alone with
\* it: one call at a time, every call run to its return.
TxAlone ==
    \/ \E o \in {"transmit", "abort", "is_idle"} : \E arg \in ArgsOf(o) :
         HalfCall(o, arg)
    \/ TxStep
    \/ Return /\ UNCHANGED nontx
    \/ Hardware /\ UNCHANGED nontx
RxAlone ==
    \/ Receive /\ UNCHANGED nonrx
    \/ RxStep
    \/ ReceiveReturn /\ UNCHANGED nonrx
    \/ HardwareRx /\ UNCHANGED nonrx
    \/ /\ \E f \in Fifos \ {rnr} : HwAcknowledge(f, rxgi[f])
       /\ UNCHANGED << rxlost, fxsa, rxlocal, nonrx >>

\* C30: the split halves need no synchronization with each other.  With
\* their calls interleaved step by step (one register or message-RAM
\* access per step): a step of the Tx half changes nothing of either
\* FIFO; a step of an Rx half changes nothing of the transmit queue and
\* nothing of the other FIFO; the release by the other Rx half changes
\* nothing of the FIFO a running receive works on.  So every half sees
\* only the peripheral and itself: what happens on the transmit side is a
\* run of the Tx half alone with the peripheral, what happens on the
\* receive side is a run of the Rx halves with it, and each result is that
\* of the calls made one after the other.
C30_HalvesIndependent ==
    /\ [][ /\ TxMoves => \A f \in Fifos : RxView(f)' = RxView(f)
           /\ RxMoves =>
                /\ TxView' = TxView
                /\ \A f \in Fifos \ {RxFifo} : RxView(f)' = RxView(f)
           /\ OtherRxMoves =>
                /\ TxView' = TxView
                /\ RxView(rnr)' = RxView(rnr) ]_vars
    /\ [][TxAlone]_txvars
    /\ [][RxAlone]_rxvars

\* The halves in use: the Tx half is about to write a mailbox while the
\* Rx half of FIFO 0 is about to release an element and the Rx half of
\* FIFO 1 has released one.
C30_Witness ==
    /\ handle = "split"
    /\ op = "transmit" /\ pc = "write"
    /\ rpc = "release" /\ rnr = 0
    /\ rxgi[1] # 0

\* C31: the preemption comparison follows CAN arbitration.  For every
\* mailbox m and identifier id, is_available(m, id) is true exactly when
\* mailbox m has no pending frame or its pending frame has a numerically
\* higher standard identifier (a lower priority) than id; so a frame can
\* take the mailbox of one with a numerically higher identifier and never
\* the reverse.
C31_ArbitrationOrder ==
    \A m \in Mailboxes : \A id \in Ids :
        is_available(m, id) <=> (~Pending(m) \/ tbsa[m] > id)

-----------------------------------------------------------------------------
(* Initialisation mode entered and left, with setters in between *)

\* The mode transitions step by step, and in Config mode the setter that
\* writes all of CCCR and apply_config.
NextInit ==
    \/ NextLive
    \/ (\E enabled \in BOOLEAN : SetProtocolExceptionHandling(enabled))
         /\ UNCHANGED << txvars, rxvars >>
    \/ Reconfigure /\ UNCHANGED << txvars, rxvars >>

SpecInit == InitModeRam /\ [][NextInit]_vars

\* CCCR after each statement of leave_init_mode run on CCCR c with the
\* snapshot cfg: the nine setters of apply_config in their order (the
\* timing and the interrupt-line setters write other registers), then
\* `cce().clear_bit()`, then `init().clear_bit()`.
leave_init_steps(c, cfg) ==
    LET ar == set_automatic_retransmit(c, cfg.automatic_retransmit)
        tp == set_transmit_pause(ar, cfg.transmit_pause)
        ft == set_frame_transmit(tp, cfg.frame_transmit)
        ni == set_non_iso_mode(ft, cfg.non_iso_mode)
        ef == set_edge_filtering(ni, cfg.edge_filtering)
        px == set_protocol_exception_handling(ef,
                  cfg.protocol_exception_handling)
        ce == [px EXCEPT !.cce = FALSE]
    IN << c, c, ar, tp, ft, ft, ni, ef, px, ce, [ce EXCEPT !.init = FALSE] >>

\* The statements of leave_init_mode that write configuration registers.
ConfigWrites == 1..9

\* CCCR as statement i of leave_init_mode finds it.
CccrBefore(t, c, i) == IF i = 1 THEN c ELSE t[i - 1]

\* CCCR as leave_init_mode finds it in a step that runs it: the mode flag
\* of the target has been written.
LeaveInitFinds ==
    IF mode' = "PoweredDown" THEN cccr ELSE EnterFlags(cccr, mode')

\* C32: the configuration-change-enable bit is set only while INIT reads
\* asserted.  CCE set implies INIT set; CCE goes from clear to set only in
\* enter_init_mode after INIT was read set; and leave_init_mode makes every
\* configuration register write while CCE is still set, has CCE clear
\* before it clears INIT, and then clears INIT.
C32_CceInsideInit ==
    /\ [](cccr.cce => cccr.init)
    /\ [][(~cccr.cce /\ cccr'.cce) =>
            (mpc \in {"enter_init_wait", "free_init_wait"} /\ cccr.init)]_vars
    /\ [][(mpc # "leave_init_wait" /\ mpc' = "leave_init_wait") =>
            LET t == leave_init_steps(LeaveInitFinds, config) IN
            /\ \A i \in ConfigWrites : CccrBefore(t, LeaveInitFinds, i).cce
            /\ ~t[10].cce /\ t[10].init /\ ~t[11].init
            /\ cccr' = t[10]]_vars

\* C33: within one successful receive call the steps are ordered.  The
\* closure has run (once) when the element is released, the element is
\* released before the message-lost flag is read, and a call that returns
\* Ok has released its element whether it read the flag set or clear.
C33_ReceiveStepOrder ==
    /\ [][(acked = << >> /\ acked' # << >>) =>
            (handler.calls = 1 /\ handler'.calls = 1 /\ lostRead = None
               /\ lostRead' = None)]_vars
    /\ [][(lostRead = None /\ lostRead' # None) =>
            (handler.calls = 1 /\ acked = << mbox >>)]_vars
    /\ []((rpc = "done" /\ RxOk) =>
            (acked = << mbox >> /\ lostRead \in {"set", "clear"}))

\* A receive has returned Ok after reading the message-lost flag set: it
\* released its element all the same.
C33_Witness ==
    /\ rpc = "done" /\ RxOk
    /\ lostRead = "set" /\ rxlost[rnr]
    /\ handler.calls = 1 /\ acked = << mbox >>

\* The elements of FIFO f the peripheral has filled and not yet got back,
\* oldest first: from the get index on, as many as the fill level.
RxStored(f) == [i \in 1..rxfl[f] |-> (rxgi[f] + i - 1) % 3]

\* C34: with no frame lost, successive successful receive calls on one
\* FIFO deliver the frames the peripheral stored in it in arrival order,
\* each once.  The element handed to the closure is the oldest one stored
\* (never one the peripheral has not filled or may write next), and the
\* release that follows takes exactly that element off the FIFO, so the
\* next call starts at the next oldest.
C34_FifoOrder ==
    [][ /\ (~rxlost[rnr] /\ handler'.calls = handler.calls + 1)
            => /\ RxStored(rnr) # << >>
               /\ handler'.slot = RxStored(rnr)[1]
        /\ (~rxlost[rnr] /\ acked' # acked /\ acked' # << >>)
            => /\ RxStored(rnr) # << >>
               /\ acked' = << RxStored(rnr)[1] >>
               /\ RxStored(rnr)' = Tail(RxStored(rnr)) ]_vars

-----------------------------------------------------------------------------
(* Config mode: setters, filter writes, apply_config, and out and back *)

\* The setters that write CCCR, single filter writes, apply_config, and
\* the transitions out of Config mode and back into it.
NextSetup ==
    \/ ConfigSetter /\ UNCHANGED << nbtp, dbtp, ckdiv, tscc, ils >>
         /\ UNCHANGED << txvars, rxvars >>
    \/ (\E slot \in StandardFilterSlots, filter \in FilterElements :
           SetStandardFilter(slot, filter)) /\ UNCHANGED << txvars, rxvars >>
    \/ (\E slot \in ExtendedFilterSlots, filter \in FilterElements :
           SetExtendedFilter(slot, filter)) /\ UNCHANGED << txvars, rxvars >>
    \/ Reconfigure /\ UNCHANGED << txvars, rxvars >>
    \/ IntoOperating /\ UNCHANGED << txvars, rxvars >>
    \/ IntoConfigMode /\ UNCHANGED << txvars, rxvars >>

SpecSetup == InitConfigMode /\ [][NextSetup]_vars

\* C35: while the handle is in Config mode, after any sequence of setters,
\* filter writes and apply_config calls, the INIT request and the
\* configuration-change-enable bit are both still set; a step clears one
\* of them only when it leaves Config mode (leave_init_mode).
C35_ConfigKeepsInitAndCce ==
    /\ [](InConfig => (cccr.init /\ cccr.cce))
    /\ [][((cccr.cce /\ ~cccr'.cce) \/ (cccr.init /\ ~cccr'.init))
            => (mode = "Config" /\ mode' # "Config")]_vars

\* Records r and s agree on every field but those of `fields`.
SameExcept(r, s, fields) == \A k \in (DOMAIN r) \ fields : r[k] = s[k]

\* A step changes, of CCCR and of the snapshot, at most the fields named.
OnlyFields(regs, snap) ==
    /\ SameExcept(cccr', cccr, regs)
    /\ SameExcept(config', config, snap)

\* C36: each Config-mode setter changes only its own register field and
\* its own snapshot field.  In particular set_transmit_pause leaves the
\* automatic-retransmission bit as it was, and
\* set_protocol_exception_handling leaves INIT, configuration-change-
\* enable, FD-enable, bit-rate-switch, non-ISO, edge-filter,
\* retransmission, monitor and restricted as they were.
C36_SetterFrame ==
    [][ /\ (\E e \in BOOLEAN : SetAutomaticRetransmit(e))
            => OnlyFields({"dar"}, {"automatic_retransmit"})
        /\ (\E e \in BOOLEAN : SetTransmitPause(e))
            => OnlyFields({"txp"}, {"transmit_pause"})
        /\ (\E e \in BOOLEAN : SetNonIsoMode(e))
            => OnlyFields({"niso"}, {"non_iso_mode"})
        /\ (\E e \in BOOLEAN : SetEdgeFiltering(e))
            => OnlyFields({"efbi"}, {"edge_filtering"})
        /\ (\E f \in FrameTransmissionConfigs : SetFrameTransmit(f))
            => OnlyFields({"fdoe", "brse"}, {"frame_transmit"})
        /\ (\E e \in BOOLEAN : SetProtocolExceptionHandling(e))
            => OnlyFields({"pxhd"}, {"protocol_exception_handling"})
        /\ (\E b \in NominalBitTimings : SetNominalBitTiming(b))
            => OnlyFields({}, {"nbtr"})
        /\ (\E b \in DataBitTimings : SetDataBitTiming(b))
            => OnlyFields({}, {"dbtr"}) ]_vars

\* ---------------------------------------------------------------------
\* Tx::write_mailbox, statement by statement.  WriteMailbox above is the
\* whole call as one step; here the header merge, each payload word the
\* writer closure stores and the TXBAR write are steps of their own, so
\* that the peripheral can act between them.  written.words counts the
\* payload words stored so far.

\* The frame lengths offered to write_mailbox: no payload, and two words.
WriteLens == {0, 8}

\* tx_ram.tbsa[idx].header.merge(tx_header)
WriteHeader ==
    /\ pc = "write"
    /\ \E len \in WriteLens :
        written' = [mb |-> idx, len |-> len, words |-> 0, ar |-> {}]
    /\ tbsa' = [tbsa EXCEPT ![idx] = frameId]
    /\ pc' = "write_data"
    /\ UNCHANGED << hw, order, op, frameId, queue_is_full, idx,
                    pending_frame, result, entryTrp, crWritten, sent >>

\* transmit(&mut tx_ram.tbsa[idx].data[0..data_len]): one word of it.
WriteData ==
    /\ pc = "write_data"
    /\ written.words < data_len(written.len)
    /\ written' = [written EXCEPT !.words = @ + 1]
    /\ UNCHANGED << hw, tbsa, order, pc, op, frameId, queue_is_full, idx,
                    pending_frame, result, entryTrp, crWritten, sent >>

\* txbar.modify(|r, w| w.ar().bits(r.ar().bits() | 1 << idx)); TXBAR reads
\* back some of the requests still pending.
AddRequest ==
    /\ pc = "write_data"
    /\ written.words = data_len(written.len)
    /\ \E ar \in SUBSET trp :
        LET add == ar \cup {idx} IN
        /\ written' = [written EXCEPT !.ar = add \ trp]
        /\ trp' = trp \cup add
        /\ tcf' = tcf \ add
        /\ tto' = tto \ add
        /\ tfqpi' = NextPut(tfqpi, trp \cup add)
        /\ order' = Append(Remove(order, idx), idx)
    /\ result' = IF pending_frame = "Some" THEN "OkSome" ELSE "OkNone"
    /\ pc' = "done"
    /\ UNCHANGED << tcr, tbsa, op, frameId, queue_is_full, idx,
                    pending_frame, entryTrp, crWritten, sent >>

NextWrite ==
    \/ Transmit /\ UNCHANGED nontx
    \/ TransmitPut /\ UNCHANGED nontx
    \/ TransmitScan /\ UNCHANGED nontx
    \/ AbortCheck /\ UNCHANGED nontx
    \/ AbortRequest /\ UNCHANGED nontx
    \/ AbortWait /\ UNCHANGED nontx
    \/ WriteHeader /\ UNCHANGED nontx
    \/ WriteData /\ UNCHANGED nontx
    \/ AddRequest /\ UNCHANGED nontx
    \/ Abort /\ UNCHANGED nontx
    \/ Return /\ UNCHANGED nontx
    \/ Hardware /\ UNCHANGED nontx

SpecWrite == Init /\ [][NextWrite]_vars

\* The peripheral starts on buffer m: its request was pending and the
\* buffer is marked as transmitted afterwards (a pending buffer is never
\* marked so, the add request clears the mark).
HwStartsOn(m) == m \in trp /\ m \in tto'

\* The slot idx holds a new header but not yet all of its payload.
PartlyWritten ==
    pc = "write_data" /\ written.words < data_len(written.len)

\* C37: transmit sets a mailbox's add-request bit only after the header and
\* every payload word of the slot are written, the peripheral never starts
\* on a slot that is partly written, and the add-request write sets only
\* that mailbox's request and clears no other.
C37_AddRequestLast ==
    /\ [][(pc = "write_data" /\ pc' = "done") =>
            /\ tbsa[idx] = frameId
            /\ written.words = data_len(written.len)
            /\ trp' = trp \cup {idx}
            /\ written'.ar \subseteq {idx}]_vars
    /\ [][PartlyWritten => ~HwStartsOn(idx)]_vars

\* C38: set_power_down_mode(enabled) writes the power-down request with the
\* value `enabled` and returns only when the acknowledge reads `enabled`:
\* PoweredDown -> Config goes on with the acknowledge clear, Config ->
\* PoweredDown and free go on with it set.
C38_ReturnsOnAcknowledge ==
    [][/\ (mpc # "power_up_wait" /\ mpc' = "power_up_wait") => ~cccr'.csa
       /\ (mpc # "power_down_wait" /\ mpc' = "power_down_wait") => cccr'.csa
       /\ (mpc # "free_power_wait" /\ mpc' = "free_power_wait") => cccr'.csa
       /\ (mpc = "power_up_wait" /\ mpc' # "power_up_wait") => ~cccr.csa
       /\ (mpc = "power_down_wait" /\ mpc' # "power_down_wait") => cccr.csa
       /\ (mpc = "free_power_wait" /\ mpc' # "free_power_wait") => cccr.csa
      ]_vars

-----------------------------------------------------------------------------
(* The configuration snapshot across transitions, split and combine *)

\* A call on the unified handle: the transitions and the Config setters
\* are methods of FdCan, which split gives up.
OnFdCan(A) == handle = "unified" /\ A /\ UNCHANGED << txvars, rxvars >>

\* Every mode transition, the Config setters and apply_config, split and
\* combine.
NextSnapshot ==
    \/ OnFdCan(PowerUpRequest)
    \/ OnFdCan(PowerUpDone)
    \/ OnFdCan(IntoOperating)
    \/ OnFdCan(IntoConfigMode)
    \/ OnFdCan(PowerDownRequest)
    \/ OnFdCan(PowerDownDone)
    \/ OnFdCan(ConfigSetter)
    \/ OnFdCan(Reconfigure)
    \/ OnFdCan(HwClockStop)
    \/ Split
    \/ Combine

SpecSnapshot == InitModeRam /\ [][NextSnapshot]_vars

\* The registers the snapshot is applied to: the bit timings, the interrupt
\* line selection, the clock divider, the timestamp counter configuration
\* and the CCCR bits of the setters.
ConfigRegisters ==
    << nbtp, dbtp, ils, ckdiv, tscc, cccr.dar, cccr.txp, cccr.fdoe,
       cccr.brse, cccr.niso, cccr.efbi, cccr.pxhd >>

\* C39: the snapshot is unchanged by every mode transition and by split and
\* combine, so it is the value last established in Config mode; and a step
\* that leaves Config or enters it leaves every configuration register as
\* it was, so leaving Config and re-entering it changes none.
C39_SnapshotKept ==
    /\ [][(mode' # mode \/ handle' # handle) => config' = config]_vars
    /\ [][config' # config =>
            (mode = "Config" /\ mode' = "Config" /\ handle = "unified")]_vars
    /\ [][((mode = "Config") # (mode' = "Config")) =>
            ConfigRegisters' = ConfigRegisters]_vars

====
